---------------------------- MODULE Spec2Model ----------------------------
(***************************************************************************)
(* The authenticated request/response core of the Meshes API client:      *)
(* mintJwt and MeshesApiClient.request (api-client.ts), with the public    *)
(* operations that delegate to request.                                    *)
(*                                                                         *)
(* Text is a sequence of one-character strings, so that concatenation,     *)
(* containment, JSON encoding and JSON parsing are computed and not        *)
(* assumed.                                                                *)
(***************************************************************************)
EXTENDS Integers, Sequences, FiniteSets, TLC

-----------------------------------------------------------------------------
(* Text helpers *)

Digits == <<"0", "1", "2", "3", "4", "5", "6", "7", "8", "9">>

IsDigit(ch) == \E d \in 1..10 : Digits[d] = ch

DigitValue(ch) == (CHOOSE d \in 1..10 : Digits[d] = ch) - 1

RECURSIVE NatToText(_)
NatToText(n) ==
    IF n < 10 THEN <<Digits[n + 1]>>
    ELSE NatToText(n \div 10) \o <<Digits[(n % 10) + 1]>>

\* String(n) / `${n}` of an integer
IntToText(n) == IF n < 0 THEN <<"-">> \o NatToText(0 - n) ELSE NatToText(n)

\* s.includes(sub)
Contains(s, sub) ==
    \E i \in 0..(Len(s) - Len(sub)) : SubSeq(s, i + 1, i + Len(sub)) = sub

StartsAt(s, i, lit) ==
    /\ i + Len(lit) - 1 <= Len(s)
    /\ SubSeq(s, i, i + Len(lit) - 1) = lit

-----------------------------------------------------------------------------
(* JSON values: a tag and a payload.  An object is the sequence of its     *)
(* <<key, value>> members in insertion order, as a JavaScript object keeps *)
(* them.                                                                   *)

JNull == [t |-> "null", v |-> <<>>]
JUndefined == [t |-> "undefined", v |-> <<>>]
JBool(b) == [t |-> "bool", v |-> b]
JNum(n) == [t |-> "num", v |-> n]
JStr(s) == [t |-> "str", v |-> s]
JArr(elems) == [t |-> "arr", v |-> elems]
JObj(members) == [t |-> "obj", v |-> members]

EmptyObject == JObj(<<>>)

HasKey(obj, key) ==
    /\ obj.t = "obj"
    /\ \E i \in 1..Len(obj.v) : obj.v[i][1] = key

\* obj[key]: the last member of that name wins, undefined when there is none
Get(obj, key) ==
    IF HasKey(obj, key)
    THEN LET i == CHOOSE j \in 1..Len(obj.v) :
                    /\ obj.v[j][1] = key
                    /\ \A k \in (j + 1)..Len(obj.v) : obj.v[k][1] # key
         IN  obj.v[i][2]
    ELSE JUndefined

\* { ...base, ...over } on sequences of <<name, value>> members
RECURSIVE Spread(_, _)
Spread(base, over) ==
    IF over = <<>> THEN base
    ELSE LET m == Head(over)
             at == {i \in 1..Len(base) : base[i][1] = m[1]}
         IN  Spread(IF at = {} THEN Append(base, m)
                    ELSE [i \in 1..Len(base) |-> IF i \in at THEN m ELSE base[i]],
                    Tail(over))

-----------------------------------------------------------------------------
(* JSON.stringify *)

RECURSIVE QuoteChars(_)
QuoteChars(s) ==
    IF s = <<>> THEN <<>>
    ELSE LET ch == Head(s)
             esc == CASE ch = "\"" -> <<"\\", "\"">>
                      [] ch = "\\" -> <<"\\", "\\">>
                      [] ch = "\n" -> <<"\\", "n">>
                      [] ch = "\t" -> <<"\\", "t">>
                      [] ch = "\r" -> <<"\\", "r">>
                      [] OTHER -> <<ch>>
         IN  esc \o QuoteChars(Tail(s))

\* mutant: a string is written between quotes without escaping
QuoteRaw(s) == <<"\"">> \o s \o <<"\"">>

Quote(s) == <<"\"">> \o QuoteChars(s) \o <<"\"">>

RECURSIVE JSONStringify(_), StringifyElements(_, _), StringifyMembers(_, _)
JSONStringify(val) ==
    CASE val.t = "null" -> <<"n", "u", "l", "l">>
      [] val.t = "bool" -> IF val.v THEN <<"t", "r", "u", "e">>
                           ELSE <<"f", "a", "l", "s", "e">>
      [] val.t = "num" -> IntToText(val.v)
      [] val.t = "str" -> Quote(val.v)
      [] val.t = "arr" -> <<"[">> \o StringifyElements(val.v, TRUE) \o <<"]">>
      [] val.t = "obj" -> <<"{">> \o StringifyMembers(val.v, TRUE) \o <<"}">>

\* an undefined array element is written as null; the elements are written
\* half by half, which keeps the evaluation of a long array shallow
StringifyElements(elems, first) ==
    IF elems = <<>> THEN <<>>
    ELSE IF Len(elems) = 1
         THEN (IF first THEN <<>> ELSE <<",">>)
              \o (IF Head(elems).t = "undefined" THEN JSONStringify(JNull)
                  ELSE JSONStringify(Head(elems)))
    ELSE LET half == Len(elems) \div 2
         IN  StringifyElements(SubSeq(elems, 1, half), first)
             \o StringifyElements(SubSeq(elems, half + 1, Len(elems)), FALSE)

\* a member whose value is undefined is left out
StringifyMembers(members, first) ==
    IF members = <<>> THEN <<>>
    ELSE IF Head(members)[2].t = "undefined"
         THEN StringifyMembers(Tail(members), first)
         ELSE (IF first THEN <<>> ELSE <<",">>)
              \o Quote(Head(members)[1]) \o <<":">>
              \o JSONStringify(Head(members)[2])
              \o StringifyMembers(Tail(members), FALSE)

-----------------------------------------------------------------------------
(* JSON.parse / Response.json(): a recursive-descent parser of the JSON    *)
(* grammar.  Numbers are integers; the texts the model draws hold no       *)
(* fraction, exponent or \u escape.                                        *)

IsWs(ch) == ch \in {" ", "\t", "\n", "\r"}

RECURSIVE SkipWs(_, _)
SkipWs(s, i) == IF i <= Len(s) /\ IsWs(s[i]) THEN SkipWs(s, i + 1) ELSE i

ParseFail == [ok |-> FALSE, val |-> JNull, pos |-> 0]
ParseOk(val, pos) == [ok |-> TRUE, val |-> val, pos |-> pos]

\* s[i] is the character after the opening quote
RECURSIVE ScanString(_, _, _)
ScanString(s, i, acc) ==
    IF i > Len(s) THEN ParseFail
    ELSE IF s[i] = "\"" THEN ParseOk(JStr(acc), i + 1)
    ELSE IF s[i] = "\\"
         THEN IF i + 1 > Len(s) THEN ParseFail
              ELSE IF s[i + 1] \in {"\"", "\\", "/"}
                   THEN ScanString(s, i + 2, Append(acc, s[i + 1]))
              ELSE IF s[i + 1] = "n" THEN ScanString(s, i + 2, Append(acc, "\n"))
              ELSE IF s[i + 1] = "t" THEN ScanString(s, i + 2, Append(acc, "\t"))
              ELSE IF s[i + 1] = "r" THEN ScanString(s, i + 2, Append(acc, "\r"))
              ELSE ParseFail
    ELSE IF s[i] \in {"\n", "\t", "\r"} THEN ParseFail
    ELSE ScanString(s, i + 1, Append(acc, s[i]))

RECURSIVE ScanDigits(_, _, _)
ScanDigits(s, i, acc) ==
    IF i <= Len(s) /\ IsDigit(s[i])
    THEN ScanDigits(s, i + 1, acc * 10 + DigitValue(s[i]))
    ELSE [val |-> acc, pos |-> i]

\* s[i] is "-" or a digit
ScanNumber(s, i) ==
    LET neg == s[i] = "-"
        j == IF neg THEN i + 1 ELSE i
    IN  IF j > Len(s) \/ ~IsDigit(s[j]) THEN ParseFail
        ELSE IF s[j] = "0" /\ j + 1 <= Len(s) /\ IsDigit(s[j + 1]) THEN ParseFail
        ELSE LET d == ScanDigits(s, j, 0)
             IN  IF d.pos <= Len(s) /\ s[d.pos] \in {".", "e", "E"} THEN ParseFail
                 ELSE ParseOk(JNum(IF neg THEN 0 - d.val ELSE d.val), d.pos)

RECURSIVE ParseValue(_, _), ParseElements(_, _, _), ParseMembers(_, _, _)
ParseValue(s, i0) ==
    LET i == SkipWs(s, i0)
    IN  IF i > Len(s) THEN ParseFail
        ELSE IF s[i] = "{"
             THEN LET j == SkipWs(s, i + 1)
                  IN  IF j <= Len(s) /\ s[j] = "}" THEN ParseOk(EmptyObject, j + 1)
                      ELSE ParseMembers(s, j, <<>>)
        ELSE IF s[i] = "["
             THEN LET j == SkipWs(s, i + 1)
                  IN  IF j <= Len(s) /\ s[j] = "]" THEN ParseOk(JArr(<<>>), j + 1)
                      ELSE ParseElements(s, j, <<>>)
        ELSE IF s[i] = "\"" THEN ScanString(s, i + 1, <<>>)
        ELSE IF s[i] = "-" \/ IsDigit(s[i]) THEN ScanNumber(s, i)
        ELSE IF StartsAt(s, i, <<"n", "u", "l", "l">>) THEN ParseOk(JNull, i + 4)
        ELSE IF StartsAt(s, i, <<"t", "r", "u", "e">>) THEN ParseOk(JBool(TRUE), i + 4)
        ELSE IF StartsAt(s, i, <<"f", "a", "l", "s", "e">>)
             THEN ParseOk(JBool(FALSE), i + 5)
        ELSE ParseFail

\* the elements of an array, after "[" or ","
ParseElements(s, i, acc) ==
    LET e == ParseValue(s, i)
    IN  IF ~e.ok THEN ParseFail
        ELSE LET j == SkipWs(s, e.pos)
             IN  IF j > Len(s) THEN ParseFail
                 ELSE IF s[j] = "]" THEN ParseOk(JArr(Append(acc, e.val)), j + 1)
                 ELSE IF s[j] = "," THEN ParseElements(s, j + 1, Append(acc, e.val))
                 ELSE ParseFail

\* the members of an object, after "{" or ","
ParseMembers(s, i0, acc) ==
    LET i == SkipWs(s, i0)
    IN  IF i > Len(s) \/ s[i] # "\"" THEN ParseFail
        ELSE LET k == ScanString(s, i + 1, <<>>)
             IN  IF ~k.ok THEN ParseFail
                 ELSE LET c == SkipWs(s, k.pos)
                      IN  IF c > Len(s) \/ s[c] # ":" THEN ParseFail
                          ELSE LET m == ParseValue(s, c + 1)
                               IN  IF ~m.ok THEN ParseFail
                                   ELSE LET j == SkipWs(s, m.pos)
                                            got == Append(acc, <<k.val.v, m.val>>)
                                        IN  IF j > Len(s) THEN ParseFail
                                            ELSE IF s[j] = "}"
                                                 THEN ParseOk(JObj(got), j + 1)
                                            ELSE IF s[j] = ","
                                                 THEN ParseMembers(s, j + 1, got)
                                            ELSE ParseFail

\* JSON.parse(text): the value, or a SyntaxError (ok = FALSE)
JSONParse(text) ==
    LET r == ParseValue(text, 1)
    IN  IF r.ok /\ SkipWs(text, r.pos) > Len(text) THEN r ELSE ParseFail

-----------------------------------------------------------------------------
(* Time.  The clock is in milliseconds (Date.now()); the claims of a      *)
(* token are in whole seconds.                                             *)

MsPerSec == 1000

\* mutant: the clock read is cut to minutes, not seconds
EpochMinutes(ms) == ms \div (60 * MsPerSec)

\* epoch(date) of jose: Math.floor(date.getTime() / 1000)
Epoch(ms) == ms \div MsPerSec

\* secs(str) of jose: a number followed by a unit
Secs(span) ==
    LET d == ScanDigits(span, 1, 0)
        unit == SubSeq(span, d.pos, Len(span))
    IN  CASE unit = <<"s">> -> d.val
          [] unit = <<"m">> -> d.val * 60
          [] unit = <<"h">> -> d.val * 3600

ExpirationTime == <<"3", "0", "s">>

-----------------------------------------------------------------------------
(* The Token Minter: mintJwt.                                              *)
(*                                                                         *)
(* A compact token is its three segments.  base64url is injective, so a    *)
(* segment is represented by the bytes it encodes (B64Url wraps them); the *)
(* header and payload bytes are the JSON text, computed by JSONStringify   *)
(* and read back by JSONParse.  The third segment is the HMAC-SHA256 of    *)
(* the two segments before it; it is represented by its key.               *)

B64Url(bytes) == [b64url |-> bytes]
B64UrlDecode(seg) == seg.b64url

\* new TextEncoder().encode(str): for the ASCII text of the model the bytes
\* are the characters
TextEncode(str) == str

Hmac(key, signingInput) == [mac |-> "HMAC-SHA256", key |-> key]

NoToken == <<>>

K_alg == <<"a", "l", "g">>
K_typ == <<"t", "y", "p">>
K_kid == <<"k", "i", "d">>
K_org == <<"o", "r", "g">>
K_iss == <<"i", "s", "s">>
K_aud == <<"a", "u", "d">>
K_iat == <<"i", "a", "t">>
K_exp == <<"e", "x", "p">>

Alg == <<"H", "S", "2", "5", "6">>
Typ == <<"J", "W", "T">>
IssuerPrefix == <<"u", "r", "n", ":", "m", "e", "s", "h", "e", "s", ":", "m", "2", "m", ":">>
Audience == <<"m", "e", "s", "h", "e", "s", "-", "a", "p", "i">>

\* .setProtectedHeader({ alg: "HS256", typ: "JWT", kid: config.accessKey })
ProtectedHeader(cfg) ==
    JObj(<< <<K_alg, JStr(Alg)>>, <<K_typ, JStr(Typ)>>, <<K_kid, JStr(cfg.accessKey)>> >>)

\* .setIssuedAt(): iat from the clock as read then
SetIssuedAt(nowMs) == JNum(Epoch(nowMs))

\* .setExpirationTime("30s"): exp from the clock as read then, plus the span
SetExpirationTime(span, nowMs) == JNum(Epoch(nowMs) + Secs(span))

\* new SignJWT({ org }).setIssuer(..).setAudience(..).setIssuedAt()
\*   .setExpirationTime("30s"); the two clock reads are iatMs and expMs
ClaimsSet(cfg, iatMs, expMs) ==
    JObj(<< <<K_org, JStr(cfg.orgId)>>,
            <<K_iss, JStr(IssuerPrefix \o cfg.accessKey)>>,
            <<K_aud, JStr(Audience)>>,
            <<K_iat, SetIssuedAt(iatMs)>>,
            <<K_exp, SetExpirationTime(ExpirationTime, expMs)>> >>)

\* .sign(key): the compact serialization
Sign(header, payload, key) ==
    LET h == B64Url(JSONStringify(header))
        p == B64Url(JSONStringify(payload))
    IN  <<h, p, B64Url(Hmac(key, <<h, p>>))>>

\* the token mintJwt(config) returns when the clock reads iatMs, then expMs
SignJWT(cfg, iatMs, expMs) ==
    Sign(ProtectedHeader(cfg), ClaimsSet(cfg, iatMs, expMs), TextEncode(cfg.secretKey))

\* what a verifier reads back from a token
DecodeHeader(tok) == JSONParse(B64UrlDecode(tok[1]))
DecodePayload(tok) == JSONParse(B64UrlDecode(tok[2]))
VerifySignature(tok, secret) ==
    B64UrlDecode(tok[3]) = Hmac(TextEncode(secret), <<tok[1], tok[2]>>)

-----------------------------------------------------------------------------
(* URLSearchParams, and the coercions the list operations apply *)

\* ToBoolean(val): the test of `if (params?.limit)` and of `forceDelete ?`
Truthy(val) ==
    CASE val.t = "undefined" -> FALSE
      [] val.t = "null" -> FALSE
      [] val.t = "bool" -> val.v
      [] val.t = "num" -> val.v # 0
      [] val.t = "str" -> val.v # <<>>
      [] OTHER -> TRUE

\* String(val) of a number or a string; query.set coerces its value the same
ToText(val) ==
    CASE val.t = "num" -> IntToText(val.v)
      [] val.t = "str" -> val.v
      [] val.t = "bool" -> JSONStringify(val)
      [] val.t = "null" -> JSONStringify(val)
      [] val.t = "obj" -> <<"[", "o", "b", "j", "e", "c", "t", " ", "O", "b", "j", "e",
                            "c", "t", "]">>
      [] OTHER -> <<"u", "n", "d", "e", "f", "i", "n", "e", "d">>

\* params?.key
Optional(params, key) == IF params.t = "obj" THEN Get(params, key) ELSE JUndefined

\* the characters of the model's alphabet that the
\* application/x-www-form-urlencoded serializer percent-encodes; letters,
\* digits and * - . _ are written as they are, a space as +
PercentCodes ==
    << <<"&", <<"%", "2", "6">> >>, <<"=", <<"%", "3", "D">> >>,
       <<"+", <<"%", "2", "B">> >>, <<"%", <<"%", "2", "5">> >>,
       <<"?", <<"%", "3", "F">> >>, <<"/", <<"%", "2", "F">> >>,
       <<"#", <<"%", "2", "3">> >>, <<":", <<"%", "3", "A">> >> >>

IsPercentEncoded(ch) == \E i \in 1..Len(PercentCodes) : PercentCodes[i][1] = ch

PercentCode(ch) ==
    PercentCodes[CHOOSE i \in 1..Len(PercentCodes) : PercentCodes[i][1] = ch][2]

RECURSIVE FormEncode(_)
FormEncode(s) ==
    IF s = <<>> THEN <<>>
    ELSE LET ch == Head(s)
         IN  (CASE ch = " " -> <<"+">>
                [] IsPercentEncoded(ch) -> PercentCode(ch)
                [] OTHER -> <<ch>>)
             \o FormEncode(Tail(s))

\* the decoding a server applies to a name or a value of the query string
RECURSIVE FormDecode(_)
FormDecode(s) ==
    IF s = <<>> THEN <<>>
    ELSE IF Head(s) = "+" THEN <<" ">> \o FormDecode(Tail(s))
    ELSE IF /\ Head(s) = "%"
            /\ Len(s) >= 3
            /\ \E i \in 1..Len(PercentCodes) : PercentCodes[i][2] = SubSeq(s, 1, 3)
         THEN <<PercentCodes[CHOOSE i \in 1..Len(PercentCodes) :
                                 PercentCodes[i][2] = SubSeq(s, 1, 3)][1]>>
              \o FormDecode(SubSeq(s, 4, Len(s)))
    ELSE <<Head(s)>> \o FormDecode(Tail(s))

\* new URLSearchParams(): the list of <<name, value>> pairs, empty
NewURLSearchParams == <<>>

\* query.set(name, value): replaces the pair of that name or appends one
QuerySet(query, name, value) ==
    Spread(query, << <<name, ToText(value)>> >>)

\* mutant: the pair is set whether the parameter is truthy or not
QuerySetAlways(query, params, key) == QuerySet(query, key, Optional(params, key))

\* if (params?.key) query.set("key", String(params.key))
QuerySetIfTruthy(query, params, key) ==
    IF Truthy(Optional(params, key))
    THEN QuerySet(query, key, Optional(params, key))
    ELSE query

\* the keys are applied in the order the operation tests them
RECURSIVE QueryOf(_, _)
QueryOf(params, keys) ==
    IF keys = <<>> THEN NewURLSearchParams
    ELSE QuerySetIfTruthy(QueryOf(params, SubSeq(keys, 1, Len(keys) - 1)),
                          params, keys[Len(keys)])

\* query.toString()
RECURSIVE QueryToString(_)
QueryToString(query) ==
    IF query = <<>> THEN <<>>
    ELSE FormEncode(Head(query)[1]) \o <<"=">> \o FormEncode(Head(query)[2])
         \o (IF Len(query) > 1 THEN <<"&">> ELSE <<>>)
         \o QueryToString(Tail(query))

\* `${qs ? `?${qs}` : ""}`
QuerySuffix(qs) == IF qs # <<>> THEN <<"?">> \o qs ELSE <<>>

-----------------------------------------------------------------------------
(* Credentials, request envelopes and responses the model draws *)

\* the MeshesConfig records a client is constructed with
Configs ==
    { [accessKey |-> <<"a", "k", "1">>, secretKey |-> <<"s", "1">>,
       orgId |-> <<"o", "1">>,
       baseUrl |-> <<"h", "t", "t", "p", "s", ":", "/", "/", "a", "p", "i", ".",
                     "m", "e", "s", "h", "e", "s", ".", "i", "o">>],
      [accessKey |-> <<"k", "\"", "2">>, secretKey |-> <<"s", "2">>,
       orgId |-> <<"o", "2">>,
       baseUrl |-> <<"h", "t", "t", "p", ":", "/", "/", "h">>] }

\* a header value: its text, and the token interpolated after it
HeaderValue(text, tok) == [text |-> text, token |-> tok]

BearerPrefix == <<"B", "e", "a", "r", "e", "r", " ">>
H_Authorization == <<"A", "u", "t", "h", "o", "r", "i", "z", "a", "t", "i", "o", "n">>
H_ContentType == <<"C", "o", "n", "t", "e", "n", "t", "-", "T", "y", "p", "e">>
ApplicationJson == <<"a", "p", "p", "l", "i", "c", "a", "t", "i", "o", "n", "/", "j",
                     "s", "o", "n">>

Undefined == "undefined"

\* the arguments of request(path, options)
\* mutant: the method option is lost
RequestArgsNoMethod(op, input, path, method, body) ==
    [op |-> op, input |-> input, path |-> path,
     options |-> [method |-> Undefined, body |-> body, headers |-> <<>>]]

\* `op` and `input` record the public operation and the arguments it got
RequestArgs(op, input, path, method, body) ==
    [op |-> op, input |-> input, path |-> path,
     options |-> [method |-> method, body |-> body, headers |-> <<>>]]

NoArgs == RequestArgs("none", <<>>, <<>>, Undefined, JUndefined)

listWorkspaces ==
    RequestArgs("listWorkspaces", <<>>,
                <<"/", "a", "p", "i", "/", "v", "1", "/", "w", "o", "r", "k", "s",
                  "p", "a", "c", "e", "s">>,
                Undefined, JUndefined)

createWorkspace(params) ==
    RequestArgs("createWorkspace", <<params>>,
                <<"/", "a", "p", "i", "/", "v", "1", "/", "w", "o", "r", "k", "s",
                  "p", "a", "c", "e", "s">>,
                "POST", JStr(JSONStringify(params)))

deleteRule(id) ==
    RequestArgs("deleteRule", <<JStr(id)>>,
                <<"/", "a", "p", "i", "/", "v", "1", "/", "r", "u", "l", "e", "s", "/">> \o id,
                "DELETE", JUndefined)


\* member names of the parameter objects and of the tool inputs
Key ==
    [limit |-> <<"l", "i", "m", "i", "t">>,
     cursor |-> <<"c", "u", "r", "s", "o", "r">>,
     event |-> <<"e", "v", "e", "n", "t">>,
     status |-> <<"s", "t", "a", "t", "u", "s">>,
     resource |-> <<"r", "e", "s", "o", "u", "r", "c", "e">>,
     resource_id |-> <<"r", "e", "s", "o", "u", "r", "c", "e", "_", "i", "d">>,
     force_delete |-> <<"f", "o", "r", "c", "e", "_", "d", "e", "l", "e", "t", "e">>,
     name |-> <<"n", "a", "m", "e">>,
     description |-> <<"d", "e", "s", "c", "r", "i", "p", "t", "i", "o", "n">>,
     workspace |-> <<"w", "o", "r", "k", "s", "p", "a", "c", "e">>,
     connection |-> <<"c", "o", "n", "n", "e", "c", "t", "i", "o", "n">>,
     type |-> <<"t", "y", "p", "e">>,
     metadata |-> <<"m", "e", "t", "a", "d", "a", "t", "a">>,
     hidden |-> <<"h", "i", "d", "d", "e", "n">>,
     active |-> <<"a", "c", "t", "i", "v", "e">>,
     payload |-> <<"p", "a", "y", "l", "o", "a", "d">>,
     action |-> <<"a", "c", "t", "i", "o", "n">>,
     email |-> <<"e", "m", "a", "i", "l">>,
     id |-> <<"i", "d">>,
     workspace_id |-> <<"w", "o", "r", "k", "s", "p", "a", "c", "e", "_", "i", "d">>,
     connection_id |-> <<"c", "o", "n", "n", "e", "c", "t", "i", "o", "n", "_", "i", "d">>,
     rule_id |-> <<"r", "u", "l", "e", "_", "i", "d">>,
     event_id |-> <<"e", "v", "e", "n", "t", "_", "i", "d">>,
     refresh |-> <<"r", "e", "f", "r", "e", "s", "h">>,
     metadata_extra |-> <<"m", "e", "t", "a", "d", "a", "t", "a", "_", "e", "x", "t", "r", "a">>,
     events |-> <<"e", "v", "e", "n", "t", "s">>]

getWorkspace(id) ==
    RequestArgs("getWorkspace", <<JStr(id)>>,
                <<"/", "a", "p", "i", "/", "v", "1", "/", "w", "o", "r", "k",
                  "s", "p", "a", "c", "e", "s", "/">>
                \o id,
                Undefined, JUndefined)

updateWorkspace(id, params) ==
    RequestArgs("updateWorkspace", <<JStr(id), params>>,
                <<"/", "a", "p", "i", "/", "v", "1", "/", "w", "o", "r", "k",
                  "s", "p", "a", "c", "e", "s", "/">>
                \o id,
                "PUT", JStr(JSONStringify(params)))

getWorkspaceConnections(id) ==
    RequestArgs("getWorkspaceConnections", <<JStr(id)>>,
                <<"/", "a", "p", "i", "/", "v", "1", "/", "w", "o", "r", "k",
                  "s", "p", "a", "c", "e", "s", "/">>
                \o id
                \o <<"/", "c", "o", "n", "n", "e", "c", "t", "i", "o", "n", "s">>,
                Undefined, JUndefined)

getWorkspaceRules(id) ==
    RequestArgs("getWorkspaceRules", <<JStr(id)>>,
                <<"/", "a", "p", "i", "/", "v", "1", "/", "w", "o", "r", "k",
                  "s", "p", "a", "c", "e", "s", "/">>
                \o id
                \o <<"/", "r", "u", "l", "e", "s">>,
                Undefined, JUndefined)

\* the parameters getWorkspaceEvents tests, in its order
WorkspaceEventsKeys ==
    <<Key.limit, Key.cursor, Key.event, Key.status, Key.resource, Key.resource_id>>

getWorkspaceEvents(id, params) ==
    RequestArgs("getWorkspaceEvents", <<JStr(id), params>>,
                <<"/", "a", "p", "i", "/", "v", "1", "/", "w", "o", "r", "k",
                  "s", "p", "a", "c", "e", "s", "/">>
                \o id
                \o <<"/", "e", "v", "e", "n", "t", "s">>
                \o QuerySuffix(QueryToString(QueryOf(params, WorkspaceEventsKeys))),
                Undefined, JUndefined)

listConnections ==
    RequestArgs("listConnections", <<>>,
                <<"/", "a", "p", "i", "/", "v", "1", "/", "c", "o", "n", "n",
                  "e", "c", "t", "i", "o", "n", "s">>,
                Undefined, JUndefined)

getConnection(id) ==
    RequestArgs("getConnection", <<JStr(id)>>,
                <<"/", "a", "p", "i", "/", "v", "1", "/", "c", "o", "n", "n",
                  "e", "c", "t", "i", "o", "n", "s", "/">>
                \o id,
                Undefined, JUndefined)

createConnection(params) ==
    RequestArgs("createConnection", <<params>>,
                <<"/", "a", "p", "i", "/", "v", "1", "/", "c", "o", "n", "n",
                  "e", "c", "t", "i", "o", "n", "s">>,
                "POST", JStr(JSONStringify(params)))

updateConnection(id, params) ==
    RequestArgs("updateConnection", <<JStr(id), params>>,
                <<"/", "a", "p", "i", "/", "v", "1", "/", "c", "o", "n", "n",
                  "e", "c", "t", "i", "o", "n", "s", "/">>
                \o id,
                "PUT", JStr(JSONStringify(params)))

\* { force_delete: true }
ForceDeleteBody == JObj(<< <<Key.force_delete, JBool(TRUE)>> >>)

\* mutant: the force-flag body is sent whatever the flag is
deleteConnectionForced(id, forceDelete) ==
    RequestArgs("deleteConnection", <<JStr(id), forceDelete>>,
                <<"/", "a", "p", "i", "/", "v", "1", "/", "c", "o", "n", "n",
                  "e", "c", "t", "i", "o", "n", "s", "/">>
                \o id,
                "DELETE", JStr(JSONStringify(ForceDeleteBody)))

deleteConnection(id, forceDelete) ==
    RequestArgs("deleteConnection", <<JStr(id), forceDelete>>,
                <<"/", "a", "p", "i", "/", "v", "1", "/", "c", "o", "n", "n",
                  "e", "c", "t", "i", "o", "n", "s", "/">>
                \o id,
                "DELETE",
                IF Truthy(forceDelete) THEN JStr(JSONStringify(ForceDeleteBody))
                ELSE JUndefined)

getConnectionActions(id) ==
    RequestArgs("getConnectionActions", <<JStr(id)>>,
                <<"/", "a", "p", "i", "/", "v", "1", "/", "c", "o", "n", "n",
                  "e", "c", "t", "i", "o", "n", "s", "/">>
                \o id
                \o <<"/", "a", "c", "t", "i", "o", "n", "s">>,
                Undefined, JUndefined)

getConnectionFields(id, refresh) ==
    RequestArgs("getConnectionFields", <<JStr(id), refresh>>,
                <<"/", "a", "p", "i", "/", "v", "1", "/", "c", "o", "n", "n",
                  "e", "c", "t", "i", "o", "n", "s", "/">>
                \o id
                \o <<"/", "f", "i", "e", "l", "d", "s">>
                \o (IF Truthy(refresh)
                    THEN <<"?", "r", "e", "f", "r", "e", "s", "h", "=", "t", "r",
                           "u", "e">>
                    ELSE <<>>),
                Undefined, JUndefined)

getConnectionDefaultMappings(id) ==
    RequestArgs("getConnectionDefaultMappings", <<JStr(id)>>,
                <<"/", "a", "p", "i", "/", "v", "1", "/", "c", "o", "n", "n",
                  "e", "c", "t", "i", "o", "n", "s", "/">>
                \o id
                \o <<"/", "m", "a", "p", "p", "i", "n", "g", "s", "/", "d", "e",
                  "f", "a", "u", "l", "t">>,
                Undefined, JUndefined)

\* the parameters listRules tests, in its order
RulesKeys == <<Key.event, Key.resource, Key.resource_id>>

listRules(params) ==
    RequestArgs("listRules", <<params>>,
                <<"/", "a", "p", "i", "/", "v", "1", "/", "r", "u", "l", "e",
                  "s">>
                \o QuerySuffix(QueryToString(QueryOf(params, RulesKeys))),
                Undefined, JUndefined)

getRule(id) ==
    RequestArgs("getRule", <<JStr(id)>>,
                <<"/", "a", "p", "i", "/", "v", "1", "/", "r", "u", "l", "e",
                  "s", "/">>
                \o id,
                Undefined, JUndefined)

createRule(params) ==
    RequestArgs("createRule", <<params>>,
                <<"/", "a", "p", "i", "/", "v", "1", "/", "r", "u", "l", "e",
                  "s">>,
                "POST", JStr(JSONStringify(params)))

\* the parameters listEvents tests, in its order
EventsKeys == <<Key.limit, Key.cursor>>

listEvents(params) ==
    RequestArgs("listEvents", <<params>>,
                <<"/", "a", "p", "i", "/", "v", "1", "/", "e", "v", "e", "n",
                  "t", "s">>
                \o QuerySuffix(QueryToString(QueryOf(params, EventsKeys))),
                Undefined, JUndefined)

emitEvent(params) ==
    RequestArgs("emitEvent", <<params>>,
                <<"/", "a", "p", "i", "/", "v", "1", "/", "e", "v", "e", "n",
                  "t", "s">>,
                "POST", JStr(JSONStringify(params)))

\* mutant: the batch is split, and only its first event is sent
emitBulkEventsFirstOnly(events) ==
    RequestArgs("emitBulkEvents", <<events>>,
                <<"/", "a", "p", "i", "/", "v", "1", "/", "e", "v", "e", "n",
                  "t", "s", "/", "b", "u", "l", "k">>,
                "POST",
                JStr(JSONStringify(IF events.v = <<>> THEN events
                                   ELSE JArr(<<Head(events.v)>>))))

emitBulkEvents(events) ==
    RequestArgs("emitBulkEvents", <<events>>,
                <<"/", "a", "p", "i", "/", "v", "1", "/", "e", "v", "e", "n",
                  "t", "s", "/", "b", "u", "l", "k">>,
                "POST", JStr(JSONStringify(events)))

getEvent(id) ==
    RequestArgs("getEvent", <<JStr(id)>>,
                <<"/", "a", "p", "i", "/", "v", "1", "/", "e", "v", "e", "n",
                  "t", "s", "/">>
                \o id,
                Undefined, JUndefined)

getEventPayload(id) ==
    RequestArgs("getEventPayload", <<JStr(id)>>,
                <<"/", "a", "p", "i", "/", "v", "1", "/", "e", "v", "e", "n",
                  "t", "s", "/">>
                \o id
                \o <<"/", "p", "a", "y", "l", "o", "a", "d">>,
                Undefined, JUndefined)

\* mutant: the identifiers are percent-encoded before they enter the path
retryEventRuleEncoded(eventId, ruleId) ==
    RequestArgs("retryEventRule", <<JStr(eventId), JStr(ruleId)>>,
                <<"/", "a", "p", "i", "/", "v", "1", "/", "e", "v", "e", "n",
                  "t", "s", "/">>
                \o FormEncode(eventId)
                \o <<"/", "r", "u", "l", "e", "s", "/">>
                \o FormEncode(ruleId)
                \o <<"/", "r", "e", "t", "r", "y">>,
                "POST", JUndefined)

retryEventRule(eventId, ruleId) ==
    RequestArgs("retryEventRule", <<JStr(eventId), JStr(ruleId)>>,
                <<"/", "a", "p", "i", "/", "v", "1", "/", "e", "v", "e", "n",
                  "t", "s", "/">>
                \o eventId
                \o <<"/", "r", "u", "l", "e", "s", "/">>
                \o ruleId
                \o <<"/", "r", "e", "t", "r", "y">>,
                "POST", JUndefined)

\* mutant: the path lacks the /api/v1 prefix
listIntegrationsUnversioned ==
    RequestArgs("listIntegrations", <<>>,
                <<"/", "i", "n", "t", "e", "g", "r", "a", "t", "i", "o", "n", "s">>,
                Undefined, JUndefined)

listIntegrations ==
    RequestArgs("listIntegrations", <<>>,
                <<"/", "a", "p", "i", "/", "v", "1", "/", "i", "n", "t", "e",
                  "g", "r", "a", "t", "i", "o", "n", "s">>,
                Undefined, JUndefined)

\* the public operations the model invokes
Invocations ==
    { listWorkspaces,
      createWorkspace(JObj(<< << <<"n", "a", "m", "e">>, JStr(<<"w">>) >> >>)),
      deleteRule(<<"r", "1">>) }

\* the objects with the members `keys`, in that order, the value of member i
\* drawn from domains[i]; a member may hold undefined, as in { limit, cursor }
RECURSIVE MembersOf(_, _)
MembersOf(keys, domains) ==
    IF keys = <<>> THEN {<<>>}
    ELSE LET n == Len(keys)
         IN  { Append(ms, <<keys[n], val>>) :
                 ms \in MembersOf(SubSeq(keys, 1, n - 1), SubSeq(domains, 1, n - 1)),
                 val \in domains[n] }

ObjectsOf(keys, domains) == {JObj(ms) : ms \in MembersOf(keys, domains)}

Ids == {<<"w", "1">>, <<" ", "r", "/", "2", " ">>}

\* optional values: left out, falsy, plain, and text the query must encode
Limits == {JUndefined, JNum(0), JNum(25)}
Cursors == {JUndefined, JStr(<<>>), JStr(<<"c", "1">>), JStr(<<"a", " ", "b", "&", "=">>)}
Filters == {JUndefined, JStr(<<>>), JStr(<<"x", ".", "y">>)}
Flags == {JUndefined, JBool(FALSE), JBool(TRUE)}

EventsParams == {JUndefined} \cup ObjectsOf(EventsKeys, <<Limits, Cursors>>)

RulesParams == {JUndefined} \cup ObjectsOf(RulesKeys, <<Filters, Filters, Filters>>)

WorkspaceEventsParams ==
    {JUndefined}
    \cup ObjectsOf(WorkspaceEventsKeys,
                   <<Limits, Cursors, {JUndefined, JStr(<<"e">>)},
                     {JUndefined, JStr(<<"f", "a", "i", "l", "e", "d">>)},
                     {JUndefined, JStr(<<"u">>)}, {JUndefined, JStr(<<"7">>)}>>)

WorkspaceParams ==
    ObjectsOf(<<Key.name, Key.description>>,
              <<{JStr(<<"w", "s", "1">>)}, {JUndefined, JStr(<<"a", " ", "\"", "b", "\"">>)}>>)

\* metadata objects, with keys and values that JSON must escape
Metadatas ==
    { JObj(<< <<Key.action, JStr(<<"s", "e", "n", "d">>)>> >>),
      JObj(<< <<Key.action, JStr(<<"s", "e", "n", "d">>)>>,
              <<Key.id, JStr(<<"4", "2">>)>>,
              <<<<"k", "\"", "1">>, JStr(<<"a", "\\", "b">>)>> >>),
      EmptyObject }

ConnectionParams ==
    ObjectsOf(<<Key.workspace, Key.type, Key.name, Key.metadata, Key.hidden>>,
              <<{JStr(<<"w", "1">>)}, {JStr(<<"w", "e", "b", "h", "o", "o", "k">>)},
                {JStr(<<"c", "n">>)}, Metadatas, Flags>>)

ConnectionUpdates ==
    ObjectsOf(<<Key.name, Key.metadata, Key.hidden>>,
              <<{JStr(<<"c", "n">>)}, Metadatas, Flags>>)

RuleParams ==
    ObjectsOf(<<Key.workspace, Key.connection, Key.event, Key.metadata, Key.resource,
                Key.resource_id, Key.active, Key.hidden>>,
              <<{JStr(<<"w", "1">>)}, {JStr(<<"c", "1">>)},
                {JStr(<<"u", ".", "s">>)}, Metadatas \ {EmptyObject},
                {JUndefined, JStr(<<"u">>)}, {JUndefined, JStr(<<"7">>)},
                {JUndefined, JBool(TRUE)}, {JUndefined, JBool(FALSE)}>>)

Payloads ==
    { EmptyObject,
      JObj(<< <<Key.email, JStr(<<"a", "@", "b">>)>>, <<Key.id, JNum(7)>> >>) }

EventParams ==
    ObjectsOf(<<Key.workspace, Key.event, Key.payload, Key.resource, Key.resource_id>>,
              <<{JStr(<<"w", "1">>)}, {JStr(<<"u", ".", "s">>), JStr(<<"p", ".", "f">>)},
                Payloads, {JUndefined, JStr(<<"u">>)}, {JUndefined}>>)

\* an event of a batch, told apart by its resource_id
BulkEvent(n) ==
    JObj(<< <<Key.workspace, JStr(<<"w", "1">>)>>, <<Key.event, JStr(<<"u", ".", "s">>)>>,
            <<Key.payload, EmptyObject>>, <<Key.resource_id, JStr(IntToText(n))>> >>)

MaxBatch == 3

\* batches of distinct events, in every order, and the empty batch
Batches ==
    { JArr(es) : es \in UNION { {f \in [1..n -> {BulkEvent(k) : k \in 1..MaxBatch}] :
                                    \A i, j \in 1..n : f[i] = f[j] => i = j}
                                : n \in 0..MaxBatch } }

\* request(path, options) called with headers of the caller's own
H_Trace == <<"X", "-", "T", "r", "a", "c", "e">>
TextPlain == <<"t", "e", "x", "t", "/", "p", "l", "a", "i", "n">>
BasicAuth == <<"B", "a", "s", "i", "c", " ", "x">>

CallerHeaders ==
    { << <<H_Trace, HeaderValue(<<"1">>, NoToken)>> >>,
      << <<H_Authorization, HeaderValue(BasicAuth, NoToken)>> >>,
      << <<H_ContentType, HeaderValue(TextPlain, NoToken)>> >>,
      << <<H_ContentType, HeaderValue(TextPlain, NoToken)>>,
         <<H_Trace, HeaderValue(<<"1">>, NoToken)>>,
         <<H_Authorization, HeaderValue(BasicAuth, NoToken)>> >> }

requestWithHeaders(headers) ==
    [RequestArgs("request", <<>>, <<"/", "p">>, Undefined, JUndefined)
        EXCEPT !.options.headers = headers]

\* every public operation, over the inputs above
Operations ==
    {listWorkspaces, listConnections, listIntegrations}
    \cup {getWorkspace(id) : id \in Ids}
    \cup {createWorkspace(p) : p \in WorkspaceParams}
    \cup {updateWorkspace(id, p) : id \in Ids, p \in WorkspaceParams}
    \cup {getWorkspaceConnections(id) : id \in Ids}
    \cup {getWorkspaceRules(id) : id \in Ids}
    \cup {getWorkspaceEvents(id, p) : id \in Ids, p \in WorkspaceEventsParams}
    \cup {getConnection(id) : id \in Ids}
    \cup {createConnection(p) : p \in ConnectionParams}
    \cup {updateConnection(id, p) : id \in Ids, p \in ConnectionUpdates}
    \cup {deleteConnection(id, f) : id \in Ids, f \in Flags}
    \cup {getConnectionActions(id) : id \in Ids}
    \cup {getConnectionFields(id, f) : id \in Ids, f \in Flags}
    \cup {getConnectionDefaultMappings(id) : id \in Ids}
    \cup {listRules(p) : p \in RulesParams}
    \cup {getRule(id) : id \in Ids}
    \cup {createRule(p) : p \in RuleParams}
    \cup {deleteRule(id) : id \in Ids}
    \cup {listEvents(p) : p \in EventsParams}
    \cup {emitEvent(p) : p \in EventParams}
    \cup {emitBulkEvents(b) : b \in Batches}
    \cup {getEvent(id) : id \in Ids}
    \cup {getEventPayload(id) : id \in Ids}
    \cup {retryEventRule(e, r) : e \in Ids, r \in Ids}

\* request() as a caller may invoke it directly
DirectRequests == {requestWithHeaders(h) : h \in CallerHeaders}

B_record == <<"{", "\"", "i", "d", "\"", ":", "\"", "w", "1", "\"", "}">>
B_empty == <<>>
B_notFound == <<"n", "o", "t", " ", "f", "o", "u", "n", "d">>
B_null == <<"n", "u", "l", "l">>
B_truncated == <<"{", "\"", "i", "d", "\"", ":">>
B_bulk == <<"{", "\"", "c", "o", "u", "n", "t", "\"", ":", "3", ",", "\"", "e", "r",
            "r", "o", "r", "_", "c", "o", "u", "n", "t", "\"", ":", "1", "}">>

\* the answer to a batch of 3 events of which the second failed
B_partial == <<"{", "\"", "c", "o", "u", "n", "t", "\"", ":", "3", ",", "\"",
               "e", "r", "r", "o", "r", "_", "c", "o", "u", "n", "t", "\"",
               ":", "1", ",", "\"", "r", "e", "c", "o", "r", "d", "s", "\"",
               ":", "[", "{", "\"", "i", "d", "\"", ":", "\"", "e", "1", "\"",
               "}", ",", "{", "\"", "e", "r", "r", "o", "r", "\"", ":", "\"",
               "b", "a", "d", "\"", "}", ",", "{", "\"", "i", "d", "\"", ":",
               "\"", "e", "3", "\"", "}", "]", "}">>

\* the answer to an emitted event
B_event == <<"{", "\"", "e", "v", "e", "n", "t", "\"", ":", "{", "\"", "i",
             "d", "\"", ":", "\"", "e", "1", "\"", "}", "}">>

\* JSON.parse of each body the model answers with, evaluated once
ParsedBodies ==
    [b \in {B_record, B_empty, B_notFound, B_null, B_truncated, B_bulk, B_partial,
            B_event} |-> JSONParse(b)]

Response(status, body) == [status |-> status, body |-> body]

NoResponse == Response(0, <<>>)

\* the responses the remote service may give
Responses ==
    { Response(200, B_record), Response(200, B_empty), Response(200, B_truncated),
      Response(201, B_record), Response(204, B_empty), Response(204, B_record),
      Response(207, B_bulk), Response(299, B_null), Response(300, B_notFound),
      Response(404, B_notFound), Response(409, B_record), Response(500, B_empty) }

-----------------------------------------------------------------------------
(* Outcomes of a call: a returned value or a thrown error *)

Pending == [kind |-> "pending", value |-> JUndefined, name |-> "", message |-> <<>>]
Returned(val) == [kind |-> "value", value |-> val, name |-> "", message |-> <<>>]
Thrown(name, message) ==
    [kind |-> "error", value |-> JUndefined, name |-> name, message |-> message]

\* errors whose text the runtime chooses
SigningError == Thrown("JOSEError", <<"s", "i", "g", "n">>)
TransportError == Thrown("TypeError", <<"f", "e", "t", "c", "h">>)
BodyError == Thrown("TypeError", <<"b", "o", "d", "y">>)
SyntaxError == Thrown("SyntaxError", <<"j", "s", "o", "n">>)

-----------------------------------------------------------------------------
(* The MCP tools (index.ts): input schemas, handlers and tool results *)

RECURSIVE Spaces(_)
Spaces(n) == IF n = 0 THEN <<>> ELSE <<" ">> \o Spaces(n - 1)

\* the members JSON.stringify writes: those whose value is not undefined
DefinedMembers(members) == SelectSeq(members, LAMBDA m : m[2].t # "undefined")

\* JSON.stringify(val, null, gap), at nesting depth `level`
RECURSIVE JSONStringifyIndent(_, _, _), IndentElements(_, _, _, _),
          IndentMembers(_, _, _, _)
JSONStringifyIndent(val, gap, level) ==
    CASE val.t = "arr" ->
            IF val.v = <<>> THEN <<"[", "]">>
            ELSE <<"[">> \o IndentElements(val.v, gap, level + 1, TRUE)
                 \o <<"\n">> \o Spaces(gap * level) \o <<"]">>
      [] val.t = "obj" ->
            IF DefinedMembers(val.v) = <<>> THEN <<"{", "}">>
            ELSE <<"{">> \o IndentMembers(DefinedMembers(val.v), gap, level + 1, TRUE)
                 \o <<"\n">> \o Spaces(gap * level) \o <<"}">>
      [] OTHER -> JSONStringify(val)

IndentElements(elems, gap, level, first) ==
    IF elems = <<>> THEN <<>>
    ELSE (IF first THEN <<>> ELSE <<",">>) \o <<"\n">> \o Spaces(gap * level)
         \o (IF Head(elems).t = "undefined" THEN JSONStringify(JNull)
             ELSE JSONStringifyIndent(Head(elems), gap, level))
         \o IndentElements(Tail(elems), gap, level, FALSE)

IndentMembers(members, gap, level, first) ==
    IF members = <<>> THEN <<>>
    ELSE (IF first THEN <<>> ELSE <<",">>) \o <<"\n">> \o Spaces(gap * level)
         \o Quote(Head(members)[1]) \o <<":", " ">>
         \o JSONStringifyIndent(Head(members)[2], gap, level)
         \o IndentMembers(Tail(members), gap, level, FALSE)

\* the indentation toolOk asks for
Gap == 2

\* what a handler returns: isError, and the text of its one content item
ToolResult(isError, text) == [isError |-> isError, text |-> text]

NoResult == ToolResult(JUndefined, <<>>)

\* toolOk(data)
toolOk(data) == ToolResult(JUndefined, JSONStringifyIndent(data, Gap, 0))

\* toolError(error): every error the client throws is an Error, so the text is
\* error.message
toolError(error) == ToolResult(JBool(TRUE), error.message)

HexDigits ==
    {"0", "1", "2", "3", "4", "5", "6", "7", "8", "9", "a", "b", "c", "d", "e", "f",
     "A", "B", "C", "D", "E", "F"}

UuidLength == 36
UuidDashes == {9, 14, 19, 24}

\* z.string().uuid(): 8-4-4-4-12 hexadecimal digits
IsUuid(s) ==
    /\ Len(s) = UuidLength
    /\ \A i \in 1..Len(s) :
          IF i \in UuidDashes THEN s[i] = "-" ELSE s[i] \in HexDigits

\* no .max() was given
Unbounded == -1

\* a member of an input schema, built as the zod chain builds it
Field(key, type) ==
    [key |-> key, type |-> type, min |-> 0, max |-> Unbounded, optional |-> FALSE,
     nullable |-> FALSE, default |-> JUndefined, values |-> {}, element |-> <<>>]

Min(f, n) == [f EXCEPT !.min = n]
Max(f, n) == [f EXCEPT !.max = n]
OptionalField(f) == [f EXCEPT !.optional = TRUE]
Nullable(f) == [f EXCEPT !.nullable = TRUE]
Default(f, val) == [f EXCEPT !.default = val]
Enum(key, values) == [Field(key, "enum") EXCEPT !.values = values]
ArrayOf(key, element) == [Field(key, "array") EXCEPT !.element = element]

\* mutant: .max() is not applied
InRangeNoMax(n, f) == f.min <= n

InRange(n, f) == f.min <= n /\ (f.max = Unbounded \/ n <= f.max)

RECURSIVE ValidValue(_, _), ValidField(_, _), ValidObject(_, _)
ValidValue(f, val) ==
    CASE f.type = "uuid" -> val.t = "str" /\ IsUuid(val.v)
      [] f.type = "string" -> val.t = "str" /\ InRange(Len(val.v), f)
      [] f.type = "number" -> val.t = "num" /\ InRange(val.v, f)
      [] f.type = "boolean" -> val.t = "bool"
      [] f.type = "enum" -> val.t = "str" /\ val.v \in f.values
      [] f.type = "record" -> val.t = "obj"
      [] f.type = "strings" ->
            val.t = "obj" /\ \A i \in 1..Len(val.v) : val.v[i][2].t = "str"
      [] f.type = "array" ->
            /\ val.t = "arr"
            /\ InRange(Len(val.v), f)
            /\ \A i \in 1..Len(val.v) : ValidObject(f.element, val.v[i])

ValidField(f, val) ==
    CASE val.t = "undefined" -> f.optional
      [] val.t = "null" -> f.nullable
      [] OTHER -> ValidValue(f, val)

\* z.object(schema) accepts obj
ValidObject(schema, obj) ==
    /\ obj.t = "obj"
    /\ \A i \in 1..Len(schema) : ValidField(schema[i], Get(obj, schema[i].key))

\* the output of z.object(schema) for an element of an array: the members of
\* the schema that obj has, in the order of the schema
ParseObject(schema, obj) ==
    JObj(SelectSeq([i \in 1..Len(schema) |-> <<schema[i].key, Get(obj, schema[i].key)>>],
                   LAMBDA m : m[2].t # "undefined"))

\* the outputs of a member for the value it got: .default(d).optional() gives
\* d or undefined for a member left out, as the zod in use resolves the chain
Parsings(f, val) ==
    IF val.t = "undefined" /\ f.default.t # "undefined" THEN {JUndefined, f.default}
    ELSE IF f.type = "array"
         THEN {JArr([i \in 1..Len(val.v) |-> ParseObject(f.element, val.v[i])])}
    ELSE {val}

\* the arguments a handler may be called with for the input of a tool call
ParsedInputs(schema, input) ==
    ObjectsOf([i \in 1..Len(schema) |-> schema[i].key],
              [i \in 1..Len(schema) |-> Parsings(schema[i], Get(input, schema[i].key))])


INTEGRATION_TYPES ==
    { <<"a", "c", "t", "i", "v", "e", "c", "a", "m", "p", "a", "i", "g", "n">>,
      <<"a", "w", "e", "b", "e", "r">>,
      <<"h", "u", "b", "s", "p", "o", "t">>,
      <<"i", "n", "t", "e", "r", "c", "o", "m">>,
      <<"m", "a", "i", "l", "c", "h", "i", "m", "p">>,
      <<"m", "a", "i", "l", "e", "r", "l", "i", "t", "e">>,
      <<"r", "e", "s", "e", "n", "d">>,
      <<"s", "a", "l", "e", "s", "f", "o", "r", "c", "e">>,
      <<"w", "e", "b", "h", "o", "o", "k">>,
      <<"z", "o", "o", "m">> }

EVENT_STATUSES ==
    { <<"p", "e", "n", "d", "i", "n", "g">>,
      <<"p", "r", "o", "c", "e", "s", "s", "i", "n", "g">>,
      <<"c", "o", "m", "p", "l", "e", "t", "e", "d">>,
      <<"f", "a", "i", "l", "e", "d">> }

MaxEvents == 100
MaxLimit == 200
DefaultLimit == 50
MinName == 3
MaxName == 50
MaxDescription == 1024
MaxConnectionName == 128

LimitField == OptionalField(Default(Max(Min(Field(Key.limit, "number"), 1), MaxLimit),
                                    JNum(DefaultLimit)))

OptionalString(key) == OptionalField(Field(key, "string"))

OptionalFlag(key, default) == OptionalField(Default(Field(key, "boolean"), JBool(default)))

\* the object schema of an element of `events`
EventElement ==
    << Field(Key.workspace, "uuid"), Min(Field(Key.event, "string"), 1),
       Field(Key.payload, "record"), OptionalString(Key.resource),
       OptionalString(Key.resource_id) >>

ToolNames ==
    { "meshes_list_workspaces",
      "meshes_get_workspace",
      "meshes_create_workspace",
      "meshes_update_workspace",
      "meshes_get_workspace_connections",
      "meshes_get_workspace_rules",
      "meshes_get_workspace_events",
      "meshes_list_connections",
      "meshes_get_connection",
      "meshes_create_connection",
      "meshes_update_connection",
      "meshes_delete_connection",
      "meshes_get_connection_actions",
      "meshes_get_connection_fields",
      "meshes_get_connection_default_mappings",
      "meshes_list_rules",
      "meshes_get_rule",
      "meshes_create_rule",
      "meshes_delete_rule",
      "meshes_emit_event",
      "meshes_emit_bulk_events",
      "meshes_list_events",
      "meshes_get_event",
      "meshes_get_event_payload",
      "meshes_retry_event_rule",
      "meshes_list_integrations" }

\* the tools in the order the server.registerTool calls run
ToolOrder ==
    << "meshes_list_workspaces",
       "meshes_get_workspace",
       "meshes_create_workspace",
       "meshes_update_workspace",
       "meshes_get_workspace_connections",
       "meshes_get_workspace_rules",
       "meshes_get_workspace_events",
       "meshes_list_connections",
       "meshes_get_connection",
       "meshes_create_connection",
       "meshes_update_connection",
       "meshes_delete_connection",
       "meshes_get_connection_actions",
       "meshes_get_connection_fields",
       "meshes_get_connection_default_mappings",
       "meshes_list_rules",
       "meshes_get_rule",
       "meshes_create_rule",
       "meshes_delete_rule",
       "meshes_emit_event",
       "meshes_emit_bulk_events",
       "meshes_list_events",
       "meshes_get_event",
       "meshes_get_event_payload",
       "meshes_retry_event_rule",
       "meshes_list_integrations" >>

\* the annotations object of a registration
Hints(readOnly, destructive, idempotent, openWorld) ==
    [readOnlyHint |-> readOnly, destructiveHint |-> destructive,
     idempotentHint |-> idempotent, openWorldHint |-> openWorld]

\* mutant: every registration carries the annotations of the first one
AnnotationsCopied(name) == Hints(TRUE, FALSE, TRUE, TRUE)

\* annotations of each tool
Annotations(name) ==
    CASE name = "meshes_list_workspaces" ->
          Hints(TRUE, FALSE, TRUE, TRUE)
      [] name = "meshes_get_workspace" ->
          Hints(TRUE, FALSE, TRUE, TRUE)
      [] name = "meshes_create_workspace" ->
          Hints(FALSE, FALSE, FALSE, TRUE)
      [] name = "meshes_update_workspace" ->
          Hints(FALSE, FALSE, TRUE, TRUE)
      [] name = "meshes_get_workspace_connections" ->
          Hints(TRUE, FALSE, TRUE, TRUE)
      [] name = "meshes_get_workspace_rules" ->
          Hints(TRUE, FALSE, TRUE, TRUE)
      [] name = "meshes_get_workspace_events" ->
          Hints(TRUE, FALSE, TRUE, TRUE)
      [] name = "meshes_list_connections" ->
          Hints(TRUE, FALSE, TRUE, TRUE)
      [] name = "meshes_get_connection" ->
          Hints(TRUE, FALSE, TRUE, TRUE)
      [] name = "meshes_create_connection" ->
          Hints(FALSE, FALSE, FALSE, TRUE)
      [] name = "meshes_update_connection" ->
          Hints(FALSE, FALSE, TRUE, TRUE)
      [] name = "meshes_delete_connection" ->
          Hints(FALSE, TRUE, FALSE, TRUE)
      [] name = "meshes_get_connection_actions" ->
          Hints(TRUE, FALSE, TRUE, TRUE)
      [] name = "meshes_get_connection_fields" ->
          Hints(TRUE, FALSE, TRUE, TRUE)
      [] name = "meshes_get_connection_default_mappings" ->
          Hints(TRUE, FALSE, TRUE, TRUE)
      [] name = "meshes_list_rules" ->
          Hints(TRUE, FALSE, TRUE, TRUE)
      [] name = "meshes_get_rule" ->
          Hints(TRUE, FALSE, TRUE, TRUE)
      [] name = "meshes_create_rule" ->
          Hints(FALSE, FALSE, FALSE, TRUE)
      [] name = "meshes_delete_rule" ->
          Hints(FALSE, TRUE, FALSE, TRUE)
      [] name = "meshes_emit_event" ->
          Hints(FALSE, FALSE, FALSE, TRUE)
      [] name = "meshes_emit_bulk_events" ->
          Hints(FALSE, FALSE, FALSE, TRUE)
      [] name = "meshes_list_events" ->
          Hints(TRUE, FALSE, TRUE, TRUE)
      [] name = "meshes_get_event" ->
          Hints(TRUE, FALSE, TRUE, TRUE)
      [] name = "meshes_get_event_payload" ->
          Hints(TRUE, FALSE, TRUE, TRUE)
      [] name = "meshes_retry_event_rule" ->
          Hints(FALSE, FALSE, FALSE, TRUE)
      [] name = "meshes_list_integrations" ->
          Hints(TRUE, FALSE, TRUE, TRUE)

-----------------------------------------------------------------------------
(* The process: its environment, and how far the module's top level got *)

\* "https://api.meshes.io"
DefaultBaseUrl == <<"h", "t", "t", "p", "s", ":", "/", "/", "a", "p", "i", ".", "m", "e", "s", "h", "e", "s", ".", "i", "o">>

\* process.env.X: unset, empty, or set
EnvValues == {JUndefined, JStr(<<>>), JStr(<<"e", "1">>)}

Envs ==
    [{"MESHES_ACCESS_KEY", "MESHES_SECRET_KEY", "MESHES_ORG_ID", "MESHES_BASE_URL"}
        -> EnvValues]

\* mutant: only an unset variable counts as missing, an empty one does not
MissingUnsetOnly(env) ==
    \/ env.MESHES_ACCESS_KEY.t = "undefined"
    \/ env.MESHES_SECRET_KEY.t = "undefined"
    \/ env.MESHES_ORG_ID.t = "undefined"

\* !ACCESS_KEY || !SECRET_KEY || !ORG_ID
Missing(env) ==
    \/ ~Truthy(env.MESHES_ACCESS_KEY)
    \/ ~Truthy(env.MESHES_SECRET_KEY)
    \/ ~Truthy(env.MESHES_ORG_ID)

\* process.env.MESHES_BASE_URL || "https://api.meshes.io"
BASE_URL(env) ==
    IF Truthy(env.MESHES_BASE_URL) THEN env.MESHES_BASE_URL.v ELSE DefaultBaseUrl

\* the MeshesConfig handed to new MeshesApiClient
ClientConfig(env) ==
    [accessKey |-> env.MESHES_ACCESS_KEY.v, secretKey |-> env.MESHES_SECRET_KEY.v,
     orgId |-> env.MESHES_ORG_ID.v, baseUrl |-> BASE_URL(env)]

\* no client has been constructed
NoClient == [accessKey |-> <<>>, secretKey |-> <<>>, orgId |-> <<>>, baseUrl |-> <<>>]

\* the process: its environment, the point its top level has reached, the exit
\* code once it has exited, and the tools registered so far
ServerState(env, at, exit, registered) ==
    [env |-> env, at |-> at, exit |-> exit, registered |-> registered]

\* a server that started with the credentials of `cfg` and is serving
Running(cfg) ==
    ServerState([MESHES_ACCESS_KEY |-> JStr(cfg.accessKey),
                 MESHES_SECRET_KEY |-> JStr(cfg.secretKey),
                 MESHES_ORG_ID |-> JStr(cfg.orgId),
                 MESHES_BASE_URL |-> JStr(cfg.baseUrl)],
                "connected", <<>>, ToolOrder)

\* inputSchema of each tool
InputSchema(name) ==
    CASE name = "meshes_list_workspaces" ->
          <<>>
      [] name = "meshes_get_workspace" ->
          <<Field(Key.workspace_id, "uuid")>>
      [] name = "meshes_create_workspace" ->
          << Max(Min(Field(Key.name, "string"), MinName), MaxName),
               OptionalField(Max(Field(Key.description, "string"), MaxDescription)) >>
      [] name = "meshes_update_workspace" ->
          << Field(Key.workspace_id, "uuid"),
               Max(Min(Field(Key.name, "string"), MinName), MaxName),
               OptionalField(Nullable(Max(Field(Key.description, "string"),
                                          MaxDescription))) >>
      [] name = "meshes_get_workspace_connections" ->
          <<Field(Key.workspace_id, "uuid")>>
      [] name = "meshes_get_workspace_rules" ->
          <<Field(Key.workspace_id, "uuid")>>
      [] name = "meshes_get_workspace_events" ->
          << Field(Key.workspace_id, "uuid"), LimitField, OptionalString(Key.cursor),
               OptionalString(Key.event), OptionalField(Enum(Key.status, EVENT_STATUSES)),
               OptionalString(Key.resource), OptionalString(Key.resource_id) >>
      [] name = "meshes_list_connections" ->
          <<>>
      [] name = "meshes_get_connection" ->
          <<Field(Key.connection_id, "uuid")>>
      [] name = "meshes_create_connection" ->
          << Field(Key.workspace, "uuid"), Enum(Key.type, INTEGRATION_TYPES),
               Max(Min(Field(Key.name, "string"), 1), MaxConnectionName),
               Field(Key.metadata, "record"), OptionalFlag(Key.hidden, FALSE) >>
      [] name = "meshes_update_connection" ->
          << Field(Key.connection_id, "uuid"),
               Max(Min(Field(Key.name, "string"), 1), MaxConnectionName),
               Field(Key.metadata, "record"), OptionalField(Field(Key.hidden, "boolean")) >>
      [] name = "meshes_delete_connection" ->
          <<Field(Key.connection_id, "uuid"), OptionalFlag(Key.force_delete, FALSE)>>
      [] name = "meshes_get_connection_actions" ->
          <<Field(Key.connection_id, "uuid")>>
      [] name = "meshes_get_connection_fields" ->
          <<Field(Key.connection_id, "uuid"), OptionalFlag(Key.refresh, FALSE)>>
      [] name = "meshes_get_connection_default_mappings" ->
          <<Field(Key.connection_id, "uuid")>>
      [] name = "meshes_list_rules" ->
          <<OptionalString(Key.event), OptionalString(Key.resource), OptionalString(Key.resource_id)>>
      [] name = "meshes_get_rule" ->
          <<Field(Key.rule_id, "uuid")>>
      [] name = "meshes_create_rule" ->
          << Field(Key.workspace, "uuid"), Field(Key.connection, "uuid"),
               Min(Field(Key.event, "string"), 1), Min(Field(Key.action, "string"), 1),
               OptionalString(Key.resource), OptionalString(Key.resource_id),
               OptionalFlag(Key.active, TRUE), OptionalFlag(Key.hidden, FALSE),
               OptionalField(Field(Key.metadata_extra, "strings")) >>
      [] name = "meshes_delete_rule" ->
          <<Field(Key.rule_id, "uuid")>>
      [] name = "meshes_emit_event" ->
          EventElement
      [] name = "meshes_emit_bulk_events" ->
          <<Max(Min(ArrayOf(Key.events, EventElement), 1), MaxEvents)>>
      [] name = "meshes_list_events" ->
          <<LimitField, OptionalString(Key.cursor)>>
      [] name = "meshes_get_event" ->
          <<Field(Key.event_id, "uuid")>>
      [] name = "meshes_get_event_payload" ->
          <<Field(Key.event_id, "uuid")>>
      [] name = "meshes_retry_event_rule" ->
          <<Field(Key.event_id, "uuid"), Field(Key.rule_id, "uuid")>>
      [] name = "meshes_list_integrations" ->
          <<>>

\* const metadata: RuleMetadata = { action, ...metadata_extra }
RuleMetadata(action, extra) ==
    JObj(Spread(<< <<Key.action, action>> >>, IF extra.t = "obj" THEN extra.v ELSE <<>>))

\* the call of the client each handler makes with its arguments `arg`
Handler(name, arg) ==
    CASE name = "meshes_list_workspaces" ->
          listWorkspaces
      [] name = "meshes_get_workspace" ->
          getWorkspace(Get(arg, Key.workspace_id).v)
      [] name = "meshes_create_workspace" ->
          createWorkspace(JObj(<< <<Key.name, Get(arg, Key.name)>>,
                                    <<Key.description, Get(arg, Key.description)>> >>))
      [] name = "meshes_update_workspace" ->
          updateWorkspace(Get(arg, Key.workspace_id).v,
                            JObj(<< <<Key.name, Get(arg, Key.name)>>,
                                    <<Key.description, Get(arg, Key.description)>> >>))
      [] name = "meshes_get_workspace_connections" ->
          getWorkspaceConnections(Get(arg, Key.workspace_id).v)
      [] name = "meshes_get_workspace_rules" ->
          getWorkspaceRules(Get(arg, Key.workspace_id).v)
      [] name = "meshes_get_workspace_events" ->
          getWorkspaceEvents(Get(arg, Key.workspace_id).v,
                               JObj([k \in 1..Len(WorkspaceEventsKeys) |->
                                       <<WorkspaceEventsKeys[k],
                                         Get(arg, WorkspaceEventsKeys[k])>>]))
      [] name = "meshes_list_connections" ->
          listConnections
      [] name = "meshes_get_connection" ->
          getConnection(Get(arg, Key.connection_id).v)
      [] name = "meshes_create_connection" ->
          createConnection(JObj(<< <<Key.workspace, Get(arg, Key.workspace)>>,
                                     <<Key.type, Get(arg, Key.type)>>,
                                     <<Key.name, Get(arg, Key.name)>>,
                                     <<Key.metadata, Get(arg, Key.metadata)>>,
                                     <<Key.hidden, Get(arg, Key.hidden)>> >>))
      [] name = "meshes_update_connection" ->
          updateConnection(Get(arg, Key.connection_id).v,
                             JObj(<< <<Key.name, Get(arg, Key.name)>>,
                                     <<Key.metadata, Get(arg, Key.metadata)>>,
                                     <<Key.hidden, Get(arg, Key.hidden)>> >>))
      [] name = "meshes_delete_connection" ->
          deleteConnection(Get(arg, Key.connection_id).v, Get(arg, Key.force_delete))
      [] name = "meshes_get_connection_actions" ->
          getConnectionActions(Get(arg, Key.connection_id).v)
      [] name = "meshes_get_connection_fields" ->
          getConnectionFields(Get(arg, Key.connection_id).v, Get(arg, Key.refresh))
      [] name = "meshes_get_connection_default_mappings" ->
          getConnectionDefaultMappings(Get(arg, Key.connection_id).v)
      [] name = "meshes_list_rules" ->
          listRules(JObj([k \in 1..Len(RulesKeys) |->
                              <<RulesKeys[k], Get(arg, RulesKeys[k])>>]))
      [] name = "meshes_get_rule" ->
          getRule(Get(arg, Key.rule_id).v)
      [] name = "meshes_create_rule" ->
          createRule(JObj(<< <<Key.workspace, Get(arg, Key.workspace)>>,
                               <<Key.connection, Get(arg, Key.connection)>>,
                               <<Key.event, Get(arg, Key.event)>>,
                               <<Key.metadata, RuleMetadata(Get(arg, Key.action),
                                                          Get(arg, Key.metadata_extra))>>,
                               <<Key.resource, Get(arg, Key.resource)>>,
                               <<Key.resource_id, Get(arg, Key.resource_id)>>,
                               <<Key.active, Get(arg, Key.active)>>,
                               <<Key.hidden, Get(arg, Key.hidden)>> >>))
      [] name = "meshes_delete_rule" ->
          deleteRule(Get(arg, Key.rule_id).v)
      [] name = "meshes_emit_event" ->
          emitEvent(JObj([k \in 1..Len(EventElement) |->
                              <<EventElement[k].key, Get(arg, EventElement[k].key)>>]))
      [] name = "meshes_emit_bulk_events" ->
          emitBulkEvents(Get(arg, Key.events))
      [] name = "meshes_list_events" ->
          listEvents(JObj(<< <<Key.limit, Get(arg, Key.limit)>>,
                               <<Key.cursor, Get(arg, Key.cursor)>> >>))
      [] name = "meshes_get_event" ->
          getEvent(Get(arg, Key.event_id).v)
      [] name = "meshes_get_event_payload" ->
          getEventPayload(Get(arg, Key.event_id).v)
      [] name = "meshes_retry_event_rule" ->
          retryEventRule(Get(arg, Key.event_id).v, Get(arg, Key.rule_id).v)
      [] name = "meshes_list_integrations" ->
          listIntegrations

\* a tool call: not made, its handler awaiting the client, answered by the
\* handler, or refused by the validation of its input
ToolCallState(name, input, at, result) ==
    [name |-> name, input |-> input, pc |-> at, result |-> result]

NoTool == ToolCallState("none", JUndefined, "idle", NoResult)

-----------------------------------------------------------------------------
(* MeshesApiClient.request *)

MaxCalls == 2
MaxClock == 2000

\* the clock when the client is constructed: just before a second begins
StartTimes == {999}

\* the ms that may pass between two clock reads of one synchronous run
Elapsed == {0, 1}

Calls == 1..MaxCalls

VARIABLES
    config,     \* this.config
    now,        \* the clock, in ms
    pc,         \* where each call stands in request()
    args,       \* the path and options each call passed to request()
    token,      \* the local `token` of each call
    response,   \* the local `response` of each call
    outcome,    \* what each call returned or threw
    mintCalls,  \* history: how often each call invoked mintJwt
    mints,      \* history: the tokens each call minted, with the clock then
    sent,       \* history: the HTTP requests each call issued
    reads,      \* history: the readers each call applied to its response body
    tool,       \* the tool call, if any, whose handler made each call
    server      \* the process that holds the client: environment and startup

vars == <<config, now, pc, args, token, response, outcome, mintCalls, mints,
          sent, reads, tool, server>>

\* no call has been made
InitCalls ==
    /\ pc = [c \in Calls |-> "idle"]
    /\ args = [c \in Calls |-> NoArgs]
    /\ token = [c \in Calls |-> NoToken]
    /\ response = [c \in Calls |-> NoResponse]
    /\ outcome = [c \in Calls |-> Pending]
    /\ mintCalls = [c \in Calls |-> 0]
    /\ mints = [c \in Calls |-> <<>>]
    /\ sent = [c \in Calls |-> <<>>]
    /\ reads = [c \in Calls |-> <<>>]
    /\ tool = [c \in Calls |-> NoTool]

\* a client constructed with one of `configs`, before any call
InitWith(configs) ==
    /\ config \in configs
    /\ now \in StartTimes
    /\ server = Running(config)
    /\ InitCalls

Init == InitWith(Configs)

\* time passes
Tick ==
    /\ now + MsPerSec <= MaxClock
    /\ now' = now + MsPerSec
    /\ UNCHANGED <<config, server, tool, pc, args, token, response, outcome, mintCalls, mints,
                   sent, reads>>

\* a public operation calls request(path, options), which calls
\* mintJwt(this.config) and suspends on it
Enter(c, a) ==
    /\ pc[c] = "idle"
    /\ \A d \in Calls : d < c => pc[d] # "idle"
    /\ pc' = [pc EXCEPT ![c] = "minting"]
    /\ args' = [args EXCEPT ![c] = a]
    /\ mintCalls' = [mintCalls EXCEPT ![c] = @ + 1]
    /\ UNCHANGED <<config, server, now, token, response, outcome, mints, sent, reads>>

\* a public operation called by the user of the client
Invoke(c, a) == Enter(c, a) /\ UNCHANGED tool

\* mutant: a token some call already holds is reused instead of minting
MintJwtCached(c) ==
    /\ pc[c] = "minting"
    /\ IF \E d \in Calls : token[d] # NoToken
       THEN /\ token' = [token EXCEPT ![c] =
                            token[CHOOSE d \in Calls : token[d] # NoToken]]
            /\ UNCHANGED <<mints, now>>
       ELSE /\ token' = [token EXCEPT ![c] = SignJWT(config, now, now)]
            /\ mints' = [mints EXCEPT ![c] =
                            Append(@, [at |-> now, token |-> SignJWT(config, now, now)])]
            /\ UNCHANGED now
    /\ pc' = [pc EXCEPT ![c] = "minted"]
    /\ UNCHANGED <<config, server, tool, args, response, outcome, mintCalls, sent, reads>>

\* mintJwt builds the claims (two clock reads, `elapsed` ms apart), signs
\* them and resolves: `token` of request() is assigned
MintJwt(c) ==
    /\ pc[c] = "minting"
    /\ \E elapsed \in Elapsed :
         /\ now + elapsed <= MaxClock
         /\ LET tok == SignJWT(config, now, now + elapsed)
            IN  /\ token' = [token EXCEPT ![c] = tok]
                /\ mints' = [mints EXCEPT ![c] =
                                Append(@, [at |-> now, token |-> tok])]
         /\ now' = now + elapsed
    /\ pc' = [pc EXCEPT ![c] = "minted"]
    /\ UNCHANGED <<config, server, tool, args, response, outcome, mintCalls, sent, reads>>

\* mutant: a failed signing is swallowed and request() goes on without a token
MintFailUnsigned(c) ==
    /\ pc[c] = "minting"
    /\ pc' = [pc EXCEPT ![c] = "minted"]
    /\ UNCHANGED <<config, server, tool, now, args, token, response, outcome, mintCalls, mints,
                   sent, reads>>

\* the import of jose or the signing rejects: request() rejects with it
MintFail(c) ==
    /\ pc[c] = "minting"
    /\ pc' = [pc EXCEPT ![c] = "done"]
    /\ outcome' = [outcome EXCEPT ![c] = SigningError]
    /\ UNCHANGED <<config, server, tool, now, args, token, response, mintCalls, mints, sent,
                   reads>>

HeaderOf(req, name) ==
    LET i == CHOOSE j \in 1..Len(req.headers) : req.headers[j][1] = name
    IN  req.headers[i][2]

\* mutant: the token is kept in a field of the client, written by call 1
BearerTokenShared(c) == IF token[1] # NoToken THEN token[1] ELSE token[c]

\* the token request() puts in the Authorization header of call c
BearerToken(c) == token[c]

\* mutant: { headers: {...}, ...options }: headers of the caller replace the
\* whole default object
FetchArgsHeadersReplaced(c) ==
    [url |-> config.baseUrl \o args[c].path,
     method |-> args[c].options.method,
     body |-> args[c].options.body,
     headers |-> IF args[c].options.headers # <<>> THEN args[c].options.headers
                 ELSE << <<H_Authorization, HeaderValue(BearerPrefix, BearerToken(c))>>,
                         <<H_ContentType, HeaderValue(ApplicationJson, NoToken)>> >>]

\* fetch(url, { ...options, headers: { Authorization, "Content-Type",
\*   ...options.headers } }) as request() calls it
FetchArgs(c) ==
    [url |-> config.baseUrl \o args[c].path,
     method |-> args[c].options.method,
     body |-> args[c].options.body,
     headers |-> Spread(<< <<H_Authorization, HeaderValue(BearerPrefix, BearerToken(c))>>,
                           <<H_ContentType, HeaderValue(ApplicationJson, NoToken)>> >>,
                        args[c].options.headers)]

\* mutant: issuing the request clears the secret key held by the client
FetchClearingSecret(c) ==
    /\ pc[c] = "minted"
    /\ sent' = [sent EXCEPT ![c] = Append(@, FetchArgs(c))]
    /\ pc' = [pc EXCEPT ![c] = "fetching"]
    /\ config' = [config EXCEPT !.secretKey = <<>>]
    /\ UNCHANGED <<server, tool, now, args, token, response, outcome, mintCalls, mints,
                   reads>>

\* request() resumes with the token and issues the HTTP request
Fetch(c) ==
    /\ pc[c] = "minted"
    /\ sent' = [sent EXCEPT ![c] = Append(@, FetchArgs(c))]
    /\ pc' = [pc EXCEPT ![c] = "fetching"]
    /\ UNCHANGED <<config, server, tool, now, args, token, response, outcome, mintCalls, mints,
                   reads>>

\* mutant: only 200 counts as success
ResponseOkOnly200(status) == status = 200

\* response.ok
ResponseOk(status) == status \in 200..299

NoContent == 204

\* mutant: the body is left out of the message
ErrorMessageStatusOnly(status, body) ==
    <<"M", "e", "s", "h", "e", "s", " ", "A", "P", "I", " ">> \o IntToText(status)

\* `Meshes API ${response.status}: ${body}`
ErrorMessage(status, body) ==
    <<"M", "e", "s", "h", "e", "s", " ", "A", "P", "I", " ">>
    \o IntToText(status) \o <<":", " ">> \o body

\* mutant: a 204 gives null
NoContentResultNull == JNull

\* what request() returns for a 204
NoContentResult == EmptyObject

\* mutant: a body that does not parse gives an empty object
JsonOutcomeLenient(body) ==
    LET r == JSONParse(body)
    IN  IF r.ok THEN Returned(r.val) ELSE Returned(EmptyObject)

\* what `return response.json()` settles to
JsonOutcome(body) ==
    LET r == IF body \in DOMAIN ParsedBodies THEN ParsedBodies[body] ELSE JSONParse(body)
    IN  IF r.ok THEN Returned(r.val) ELSE SyntaxError

\* mutant: the body of a rejection is read with response.json()
FetchResolveJsonOnError(c, r) ==
    /\ pc[c] = "fetching"
    /\ response' = [response EXCEPT ![c] = r]
    /\ IF ResponseOk(r.status) /\ r.status = NoContent
       THEN /\ pc' = [pc EXCEPT ![c] = "done"]
            /\ outcome' = [outcome EXCEPT ![c] = Returned(NoContentResult)]
            /\ UNCHANGED reads
       ELSE /\ pc' = [pc EXCEPT ![c] = "json"]
            /\ reads' = [reads EXCEPT ![c] = Append(@, "json")]
            /\ UNCHANGED outcome
    /\ UNCHANGED <<config, server, tool, now, args, token, mintCalls, mints, sent>>

\* fetch resolves with a response; request() checks the status and either
\* starts reading the body as text, returns {} or starts reading it as JSON
FetchResolve(c, r) ==
    /\ pc[c] = "fetching"
    /\ response' = [response EXCEPT ![c] = r]
    /\ IF ~ResponseOk(r.status)
       THEN /\ pc' = [pc EXCEPT ![c] = "text"]
            /\ reads' = [reads EXCEPT ![c] = Append(@, "text")]
            /\ UNCHANGED outcome
       ELSE IF r.status = NoContent
       THEN /\ pc' = [pc EXCEPT ![c] = "done"]
            /\ outcome' = [outcome EXCEPT ![c] = Returned(NoContentResult)]
            /\ UNCHANGED reads
       ELSE /\ pc' = [pc EXCEPT ![c] = "json"]
            /\ reads' = [reads EXCEPT ![c] = Append(@, "json")]
            /\ UNCHANGED outcome
    /\ UNCHANGED <<config, server, tool, now, args, token, mintCalls, mints, sent>>

\* fetch rejects (DNS, connect, transport exception)
FetchReject(c) ==
    /\ pc[c] = "fetching"
    /\ pc' = [pc EXCEPT ![c] = "done"]
    /\ outcome' = [outcome EXCEPT ![c] = TransportError]
    /\ UNCHANGED <<config, server, tool, now, args, token, response, mintCalls, mints, sent,
                   reads>>

\* mutant: a rejected request is tried once more
TextResolveRetry(c) ==
    /\ pc[c] = "text"
    /\ IF mintCalls[c] < 2
       THEN /\ pc' = [pc EXCEPT ![c] = "minting"]
            /\ mintCalls' = [mintCalls EXCEPT ![c] = @ + 1]
            /\ UNCHANGED outcome
       ELSE /\ pc' = [pc EXCEPT ![c] = "done"]
            /\ outcome' = [outcome EXCEPT ![c] =
                              Thrown("Error", <<"M", "e", "s", "h", "e", "s">>)]
            /\ UNCHANGED mintCalls
    /\ UNCHANGED <<config, server, tool, now, args, token, response, mints, sent, reads>>

\* response.text() resolves: throw new Error(`Meshes API ...`)
TextResolve(c) ==
    /\ pc[c] = "text"
    /\ pc' = [pc EXCEPT ![c] = "done"]
    /\ outcome' = [outcome EXCEPT ![c] =
                      Thrown("Error", ErrorMessage(response[c].status, response[c].body))]
    /\ UNCHANGED <<config, server, tool, now, args, token, response, mintCalls, mints, sent,
                   reads>>

\* response.json() settles
JsonSettle(c) ==
    /\ pc[c] = "json"
    /\ pc' = [pc EXCEPT ![c] = "done"]
    /\ outcome' = [outcome EXCEPT ![c] = JsonOutcome(response[c].body)]
    /\ UNCHANGED <<config, server, tool, now, args, token, response, mintCalls, mints, sent,
                   reads>>

\* the body stream fails while it is read
BodyReject(c) ==
    /\ pc[c] \in {"text", "json"}
    /\ pc' = [pc EXCEPT ![c] = "done"]
    /\ outcome' = [outcome EXCEPT ![c] = BodyError]
    /\ UNCHANGED <<config, server, tool, now, args, token, response, mintCalls, mints, sent,
                   reads>>

-----------------------------------------------------------------------------
(* Tool calls *)

\* errors of reading a property of undefined or null, raised by
\* result.event.id in the handler of meshes_emit_event
NoEventError ==
    Thrown("TypeError", <<"C", "a", "n", "n", "o", "t", " ", "r", "e", "a", "d", " ", "p",
             "r", "o", "p", "e", "r", "t", "i", "e", "s", " ", "o", "f", " ",
             "u", "n", "d", "e", "f", "i", "n", "e", "d", " ", "(", "r", "e",
             "a", "d", "i", "n", "g", " ", "'", "i", "d", "'", ")">>)

\* the result of the handler of tool `name` once the client call it awaited
\* has settled with `settled`; `params` is what it passed to the client
HandlerReturn(name, params, settled) ==
    IF settled.kind = "error" THEN toolError(settled)
    ELSE IF name # "meshes_emit_event" THEN toolOk(settled.value)
    ELSE IF settled.value.t \in {"null", "undefined"} THEN toolError(NoEventError)
    ELSE IF Optional(settled.value, Key.event).t \in {"null", "undefined"}
         THEN toolError(NoEventError)
    ELSE ToolResult(JUndefined,
                    <<"E", "v", "e", "n", "t", " ", "e", "m", "i", "t", "t",
                      "e", "d", " ", "s", "u", "c", "c", "e", "s", "s", "f",
                      "u", "l", "l", "y", ".", " ", "I", "D", ":", " ">>
                    \o ToText(Optional(Optional(settled.value, Key.event), Key.id))
                    \o <<"\n">> \o <<"E", "v", "e", "n", "t", " ", "\"">> \o ToText(Get(params, Key.event))
                    \o <<"\"", " ", "w", "i", "l", "l", " ", "b", "e", " ", "r",
                      "o", "u", "t", "e", "d", " ", "t", "o", " ", "a", "l",
                      "l", " ", "m", "a", "t", "c", "h", "i", "n", "g", " ",
                      "r", "u", "l", "e", "s", " ", "i", "n", " ", "w", "o",
                      "r", "k", "s", "p", "a", "c", "e", " ">>
                    \o ToText(Get(params, Key.workspace)) \o <<".", "\n", "\n">>
                    \o JSONStringifyIndent(settled.value, Gap, 0))

\* the server checks the input of a tool call against the input schema of the
\* tool; the handler of an accepted call runs up to the call of the client it
\* awaits, which enters request(); a refused call runs no handler
ToolCall(c, name, input) ==
    /\ tool[c].pc = "idle"
    /\ pc[c] = "idle"
    /\ IF ValidObject(InputSchema(name), input)
       THEN /\ \E parsed \in ParsedInputs(InputSchema(name), input) :
                  Enter(c, Handler(name, parsed))
            /\ tool' = [tool EXCEPT ![c] = ToolCallState(name, input, "running", NoResult)]
       ELSE /\ tool' = [tool EXCEPT ![c] = ToolCallState(name, input, "rejected", NoResult)]
            /\ UNCHANGED <<config, server, now, pc, args, token, response, outcome, mintCalls,
                           mints, sent, reads>>

\* the params object the handler of call c passed to the client, if any
HandlerParams(c) ==
    IF args[c].input = <<>> THEN JUndefined ELSE args[c].input[Len(args[c].input)]

\* mutant: the handler waits for a value and never returns after an error
ToolSettleOnValueOnly(c) ==
    /\ tool[c].pc = "running"
    /\ pc[c] = "done"
    /\ outcome[c].kind = "value"
    /\ tool' = [tool EXCEPT ![c] =
                   ToolCallState(@.name, @.input, "done",
                                 HandlerReturn(@.name, HandlerParams(c), outcome[c]))]
    /\ UNCHANGED <<config, server, now, pc, args, token, response, outcome, mintCalls, mints,
                   sent, reads>>

\* mutant: an error of the client leaves the handler
ToolSettleThrows(c) ==
    /\ tool[c].pc = "running"
    /\ pc[c] = "done"
    /\ tool' = [tool EXCEPT ![c] =
                   IF outcome[c].kind = "error"
                   THEN ToolCallState(@.name, @.input, "thrown", NoResult)
                   ELSE ToolCallState(@.name, @.input, "done",
                                      HandlerReturn(@.name, HandlerParams(c), outcome[c]))]
    /\ UNCHANGED <<config, server, now, pc, args, token, response, outcome, mintCalls, mints,
                   sent, reads>>

\* the client call has settled: the handler resumes in its try block and
\* returns toolOk(...) or, from its catch, toolError(e)
ToolSettle(c) ==
    /\ tool[c].pc = "running"
    /\ pc[c] = "done"
    /\ tool' = [tool EXCEPT ![c] =
                   ToolCallState(@.name, @.input, "done",
                                 HandlerReturn(@.name, HandlerParams(c), outcome[c]))]
    /\ UNCHANGED <<config, server, now, pc, args, token, response, outcome, mintCalls, mints,
                   sent, reads>>

\* the top level of index.ts up to the construction of the client: without
\* one of the three credentials it logs and exits with code 1
Bootstrap ==
    /\ server.at = "start"
    /\ IF Missing(server.env)
       THEN /\ server' = [server EXCEPT !.at = "exited", !.exit = <<1>>]
            /\ UNCHANGED config
       ELSE /\ config' = ClientConfig(server.env)
            /\ server' = [server EXCEPT !.at = "constructed"]
    /\ UNCHANGED <<now, pc, args, token, response, outcome, mintCalls, mints, sent,
                   reads, tool>>

\* the next server.registerTool call of the top level
RegisterTool ==
    /\ server.at = "constructed"
    /\ Len(server.registered) < Len(ToolOrder)
    /\ server' = [server EXCEPT
                    !.registered = Append(@, ToolOrder[Len(server.registered) + 1])]
    /\ UNCHANGED <<config, now, pc, args, token, response, outcome, mintCalls, mints,
                   sent, reads, tool>>

\* main(): new StdioServerTransport(), then await server.connect(transport)
Main ==
    /\ server.at = "constructed"
    /\ Len(server.registered) = Len(ToolOrder)
    /\ server' = [server EXCEPT !.at = "connecting"]
    /\ UNCHANGED <<config, now, pc, args, token, response, outcome, mintCalls, mints,
                   sent, reads, tool>>

\* server.connect resolved: the server runs on stdio
ConnectResolve ==
    /\ server.at = "connecting"
    /\ server' = [server EXCEPT !.at = "connected"]
    /\ UNCHANGED <<config, now, pc, args, token, response, outcome, mintCalls, mints,
                   sent, reads, tool>>

\* server.connect rejected: main().catch logs and exits with code 1
ConnectReject ==
    /\ server.at = "connecting"
    /\ server' = [server EXCEPT !.at = "exited", !.exit = <<1>>]
    /\ UNCHANGED <<config, now, pc, args, token, response, outcome, mintCalls, mints,
                   sent, reads, tool>>

\* the steps of call c, invoked with one of `invocations` and answered with
\* one of `responses`
Step(c, invocations, responses) ==
    \/ \E a \in invocations : Invoke(c, a)
    \/ MintJwt(c)
    \/ MintFail(c)
    \/ Fetch(c)
    \/ \E r \in responses : FetchResolve(c, r)
    \/ FetchReject(c)
    \/ TextResolve(c)
    \/ JsonSettle(c)
    \/ BodyReject(c)

\* concurrent calls on one client
ConcurrentConfigs == {cfg \in Configs : cfg.orgId = <<"o", "1">>}

ConcurrentInvocations == {listWorkspaces}

ConcurrentResponses ==
    {Response(200, B_record), Response(204, B_empty), Response(404, B_notFound)}

Next ==
    \/ Tick
    \/ \E c \in Calls : Step(c, ConcurrentInvocations, ConcurrentResponses)

InitConcurrent == InitWith(ConcurrentConfigs)

Spec == InitConcurrent /\ [][Next]_vars

\* one call, with every invocation and every response
NextCall ==
    \/ Tick
    \/ Step(1, Invocations, Responses)

SpecCall == Init /\ [][NextCall]_vars

\* one call of any public operation, or of request() with headers
OpResponses ==
    { Response(200, B_record), Response(201, B_record), Response(207, B_partial),
      Response(204, B_empty), Response(409, B_notFound) }

NextOps ==
    \/ Tick
    \/ Step(1, Operations \cup DirectRequests, OpResponses)

SpecOps == Init /\ [][NextOps]_vars

\* the token minter alone: calls up to the end of mintJwt, with every config
NextMint ==
    \/ Tick
    \/ \E c \in Calls :
         \/ \E a \in Invocations : Invoke(c, a)
         \/ MintJwt(c)
         \/ MintFail(c)

SpecMint == Init /\ [][NextMint]_vars

\* UUIDs, and a text that is none
Uuid1 ==
    <<"1", "2", "3", "e", "4", "5", "6", "7", "-", "e", "8", "9", "b", "-",
      "4", "2", "d", "3", "-", "a", "4", "5", "6", "-", "4", "2", "6", "6",
      "1", "4", "1", "7", "4", "0", "0", "0">>
Uuid2 ==
    <<"9", "b", "2", "f", "0", "c", "1", "a", "-", "7", "d", "4", "e", "-",
      "4", "f", "8", "b", "-", "8", "a", "6", "c", "-", "0", "e", "5", "d",
      "3", "c", "2", "b", "1", "a", "0", "0">>
NotUuid == <<"w", "1">>

ToolInput(name, members) == [name |-> name, input |-> JObj(members)]

\* an element of `events`, told apart by its resource_id
ToolEvent(n) ==
    JObj(<< <<Key.workspace, JStr(Uuid1)>>, <<Key.event, JStr(<<"u", ".", "s">>)>>,
            <<Key.payload, EmptyObject>>, <<Key.resource_id, JStr(IntToText(n))>> >>)

\* arrays of n events
EventsOf(n) == JArr([i \in 1..n |-> ToolEvent(i)])

\* the sizes of `events` tried: none, few, the most allowed and one more
EventCounts == {0, 1, 2, MaxEvents, MaxEvents + 1}

\* the tool calls made
ToolInputs ==
    {ToolInput(name, <<>>) :
        name \in {"meshes_list_workspaces", "meshes_list_connections",
                  "meshes_list_integrations", "meshes_list_rules", "meshes_list_events",
                  "meshes_get_workspace", "meshes_emit_bulk_events"}}
    \cup {ToolInput(name, << <<Key.workspace_id, JStr(id)>> >>) :
            name \in {"meshes_get_workspace", "meshes_get_workspace_connections",
                      "meshes_get_workspace_rules", "meshes_get_workspace_events"},
            id \in {Uuid1, NotUuid}}
    \cup {ToolInput(name, << <<Key.connection_id, JStr(Uuid2)>> >>) :
            name \in {"meshes_get_connection", "meshes_get_connection_actions",
                      "meshes_get_connection_fields",
                      "meshes_get_connection_default_mappings",
                      "meshes_delete_connection"}}
    \cup {ToolInput("meshes_delete_connection",
                    << <<Key.connection_id, JStr(Uuid2)>>, <<Key.force_delete, JBool(f)>> >>) :
            f \in BOOLEAN}
    \cup {ToolInput("meshes_get_connection_fields",
                    << <<Key.connection_id, JStr(Uuid2)>>, <<Key.refresh, JBool(TRUE)>> >>)}
    \cup {ToolInput(name, << <<Key.rule_id, JStr(Uuid1)>> >>) :
            name \in {"meshes_get_rule", "meshes_delete_rule"}}
    \cup {ToolInput(name, << <<Key.event_id, JStr(Uuid1)>> >>) :
            name \in {"meshes_get_event", "meshes_get_event_payload"}}
    \cup {ToolInput("meshes_retry_event_rule",
                    << <<Key.event_id, JStr(Uuid1)>>, <<Key.rule_id, JStr(Uuid2)>> >>)}
    \cup {ToolInput("meshes_create_workspace",
                    << <<Key.name, JStr(n)>>, <<Key.description, d>> >>) :
            n \in {<<"w", "s", "1">>, <<"w">>},
            d \in {JUndefined, JStr(<<"a", " ", "\"", "b", "\"">>)}}
    \cup {ToolInput("meshes_update_workspace",
                    << <<Key.workspace_id, JStr(Uuid1)>>, <<Key.name, JStr(<<"w", "s", "1">>)>>,
                       <<Key.description, d>> >>) :
            d \in {JUndefined, JNull, JStr(<<"d">>)}}
    \cup {ToolInput("meshes_get_workspace_events",
                    << <<Key.workspace_id, JStr(Uuid1)>>, <<Key.limit, l>>,
                       <<Key.status, JStr(s)>> >>) :
            l \in Limits, s \in {<<"f", "a", "i", "l", "e", "d">>, <<"l", "o", "s", "t">>}}
    \cup {ToolInput("meshes_create_connection",
                    << <<Key.workspace, JStr(Uuid1)>>,
                       <<Key.type, JStr(<<"w", "e", "b", "h", "o", "o", "k">>)>>,
                       <<Key.name, JStr(<<"c", "n">>)>>, <<Key.metadata, m>>,
                       <<Key.hidden, h>> >>) :
            m \in Metadatas, h \in Flags}
    \cup {ToolInput("meshes_update_connection",
                    << <<Key.connection_id, JStr(Uuid2)>>, <<Key.name, JStr(<<"c", "n">>)>>,
                       <<Key.metadata, m>> >>) :
            m \in Metadatas}
    \cup {ToolInput("meshes_list_rules", << <<Key.event, e>>, <<Key.resource_id, r>> >>) :
            e \in Filters, r \in Filters}
    \cup {ToolInput("meshes_create_rule",
                    << <<Key.workspace, JStr(Uuid1)>>, <<Key.connection, JStr(Uuid2)>>,
                       <<Key.event, JStr(<<"u", ".", "s">>)>>, <<Key.action, JStr(a)>>,
                       <<Key.metadata_extra, x>> >>) :
            a \in {<<"s", "e", "n", "d">>, <<"t", "a", "g">>, <<>>},
            x \in {JUndefined} \cup Metadatas}
    \cup {ToolInput("meshes_emit_event",
                    << <<Key.workspace, JStr(Uuid1)>>, <<Key.event, JStr(<<"u", ".", "s">>)>>,
                       <<Key.payload, p>> >>) :
            p \in Payloads}
    \cup {ToolInput("meshes_emit_bulk_events", << <<Key.events, EventsOf(n)>> >>) :
            n \in EventCounts}
    \cup {ToolInput("meshes_list_events", << <<Key.limit, l>>, <<Key.cursor, cu>> >>) :
            l \in Limits \cup {JNum(MaxLimit + 1)}, cu \in Cursors}

ToolResponses ==
    { Response(200, B_record), Response(201, B_event), Response(207, B_partial),
      Response(204, B_empty), Response(409, B_notFound), Response(200, B_null) }

\* one tool call, from the validation of its input to the return of its handler
NextTool ==
    \/ Tick
    \/ \E call \in ToolInputs : ToolCall(1, call.name, call.input)
    \/ MintJwt(1)
    \/ MintFail(1)
    \/ Fetch(1)
    \/ \E r \in ToolResponses : FetchResolve(1, r)
    \/ FetchReject(1)
    \/ TextResolve(1)
    \/ JsonSettle(1)
    \/ BodyReject(1)
    \/ ToolSettle(1)

SpecTool == Init /\ [][NextTool]_vars

\* one accepted call of each tool, and one call the validation refuses
OneInputOf(name) ==
    CHOOSE call \in ToolInputs :
        call.name = name /\ ValidObject(InputSchema(name), call.input)

FairToolInputs ==
    {OneInputOf(name) : name \in ToolNames}
    \cup {CHOOSE call \in ToolInputs : ~ValidObject(InputSchema(call.name), call.input)}

NextToolFair ==
    \/ Tick
    \/ \E call \in FairToolInputs : ToolCall(1, call.name, call.input)
    \/ MintJwt(1)
    \/ MintFail(1)
    \/ Fetch(1)
    \/ \E r \in ToolResponses : FetchResolve(1, r)
    \/ FetchReject(1)
    \/ TextResolve(1)
    \/ JsonSettle(1)
    \/ BodyReject(1)
    \/ ToolSettle(1)

\* a call of any tool, where what the call awaits settles: the signing
\* completes or fails, the transport answers or fails, the body is delivered or
\* fails, and the continuations the event loop holds are run
SpecToolFair ==
    /\ Init
    /\ [][NextToolFair]_vars
    /\ WF_vars(MintJwt(1) \/ MintFail(1))
    /\ WF_vars(Fetch(1))
    /\ WF_vars((\E r \in ToolResponses : FetchResolve(1, r)) \/ FetchReject(1))
    /\ WF_vars(TextResolve(1) \/ JsonSettle(1) \/ BodyReject(1))
    /\ WF_vars(ToolSettle(1))

\* the process as node starts it, in every environment
InitStart ==
    /\ config = NoClient
    /\ now \in StartTimes
    /\ server \in {ServerState(env, "start", <<>>, <<>>) : env \in Envs}
    /\ InitCalls

NextStart ==
    \/ Bootstrap
    \/ RegisterTool
    \/ Main
    \/ ConnectResolve
    \/ ConnectReject

SpecStart == InitStart /\ [][NextStart]_vars

-----------------------------------------------------------------------------
(* Properties *)

\* the token carried by an issued request
SentToken(req) == HeaderOf(req, H_Authorization).token

\* call c received a response and its body, where read, was delivered
Answered(c) ==
    /\ pc[c] = "done"
    /\ response[c] # NoResponse
    /\ outcome[c] # BodyError

Is2xx(status) == 200 <= status /\ status <= 299

\* C1: every call invokes mintJwt exactly once and mints at most one token;
\* a request is issued only after the call's own token has been minted, and
\* the token the request carries is that token.
C1_OneFreshTokenPerCall ==
    \A c \in Calls :
        /\ mintCalls[c] = (IF pc[c] = "idle" THEN 0 ELSE 1)
        /\ Len(mints[c]) <= 1
        /\ pc[c] \in {"minted", "fetching", "text", "json"} => Len(mints[c]) = 1
        /\ \A i \in 1..Len(sent[c]) :
              /\ Len(mints[c]) = 1
              /\ SentToken(sent[c][i]) = mints[c][1].token
              /\ HeaderOf(sent[c][i], H_Authorization).text = BearerPrefix

\* two calls have each issued a request, with tokens minted at different times
C1_Witness ==
    \E c, d \in Calls :
        /\ c # d
        /\ Len(sent[c]) = 1 /\ Len(sent[d]) = 1
        /\ SentToken(sent[c][1]) # SentToken(sent[d][1])
        /\ outcome[c].kind = "value"

\* C2: a call whose minting failed fails and issues no request; every request
\* issued carries a token signed with the secret key.
C2_NoUnsignedRequest ==
    \A c \in Calls :
        /\ (pc[c] = "done" /\ mints[c] = <<>>) =>
              (outcome[c].kind = "error" /\ sent[c] = <<>> /\ response[c] = NoResponse)
        /\ \A i \in 1..Len(sent[c]) :
              /\ SentToken(sent[c][i]) # NoToken
              /\ VerifySignature(SentToken(sent[c][i]), config.secretKey)

\* one call failed in minting while another one issued its request
C2_Witness ==
    \E c, d \in Calls :
        /\ pc[c] = "done" /\ outcome[c] = SigningError /\ sent[c] = <<>>
        /\ Len(sent[d]) = 1

\* C3: a call answered with a non-2xx status fails with an Error whose message
\* contains the decimal status code and the body text as received.
C3_RejectionCarriesStatusAndBody ==
    \A c \in Calls :
        (Answered(c) /\ ~Is2xx(response[c].status)) =>
            /\ outcome[c].kind = "error"
            /\ outcome[c].name = "Error"
            /\ Contains(outcome[c].message, IntToText(response[c].status))
            /\ Contains(outcome[c].message, response[c].body)

\* a 404 with body "not found" gave a message holding "404" and "not found"
C3_Witness ==
    \E c \in Calls :
        /\ Answered(c)
        /\ response[c] = Response(404, B_notFound)
        /\ Contains(outcome[c].message, <<"4", "0", "4">>)
        /\ Contains(outcome[c].message, B_notFound)

\* C4: a call answered with status 204 returns an empty object, whatever the
\* body holds: it does not fail, the value is neither null nor undefined, and
\* no reader is applied to the body.
C4_NoContentGivesEmptyObject ==
    \A c \in Calls :
        (response[c] # NoResponse /\ response[c].status = 204) =>
            /\ pc[c] = "done"
            /\ outcome[c].kind = "value"
            /\ outcome[c].value.t = "obj"
            /\ outcome[c].value.v = <<>>
            /\ reads[c] = <<>>

\* a 204 whose body holds a record returned the empty object
C4_Witness ==
    \E c \in Calls :
        /\ response[c] = Response(204, B_record)
        /\ outcome[c] = Returned(EmptyObject)

\* C5 as stated: an answered call fails if and only if the status is outside
\* 200..299.
C5_FailsIffNon2xx ==
    \A c \in Calls :
        Answered(c) => (outcome[c].kind = "error" <=> ~Is2xx(response[c].status))

\* C5 amended: an answered call fails with the status error if and only if
\* the status is outside 200..299; a 204 returns the empty object; any other
\* 2xx returns the parsed body when the body is JSON and fails with the parse
\* error when it is not.
C5_StatusClassification ==
    \A c \in Calls :
        Answered(c) =>
            LET st == response[c].status
            IN  /\ (outcome[c].kind = "error" /\ outcome[c].name = "Error") <=> ~Is2xx(st)
                /\ st = 204 => outcome[c] = Returned(EmptyObject)
                /\ (Is2xx(st) /\ st # 204) =>
                      IF JSONParse(response[c].body).ok
                      THEN outcome[c].kind = "value"
                      ELSE outcome[c].kind = "error" /\ outcome[c].name = "SyntaxError"

\* a 207 returned its parsed body
C5_Witness ==
    \E c \in Calls :
        /\ Answered(c)
        /\ response[c] = Response(207, B_bulk)
        /\ outcome[c].kind = "value"
        /\ Get(outcome[c].value, <<"c", "o", "u", "n", "t">>) = JNum(3)

\* C6: a call answered with a 2xx status other than 204 returns the value
\* the body parses to, and fails with the parse error when the body is not
\* JSON (an empty body included); it returns nothing else.
C6_JsonBodyOrParseError ==
    \A c \in Calls :
        (Answered(c) /\ Is2xx(response[c].status) /\ response[c].status # 204) =>
            LET r == JSONParse(response[c].body)
            IN  /\ reads[c] = <<"json">>
                /\ r.ok => outcome[c] = Returned(r.val)
                /\ ~r.ok => outcome[c] = SyntaxError
                /\ response[c].body = B_record =>
                      Get(outcome[c].value, <<"i", "d">>) = JStr(<<"w", "1">>)
                /\ response[c].body \in {B_empty, B_truncated} =>
                      outcome[c].kind = "error"

\* a 200 with an empty body failed with the parse error
C6_Witness ==
    \E c \in Calls :
        /\ Answered(c)
        /\ response[c] = Response(200, B_empty)
        /\ outcome[c] = SyntaxError

\* C7: a call invokes mintJwt at most once, mints at most one token and issues
\* at most one request, whatever its outcome; once it has returned or failed
\* it takes no further step.
C7_NoRetry ==
    \A c \in Calls :
        /\ mintCalls[c] <= 1
        /\ Len(mints[c]) <= 1
        /\ Len(sent[c]) <= 1
        /\ Len(reads[c]) <= 1
        /\ outcome[c].kind # "pending" <=> pc[c] = "done"

\* a call failed on a remote rejection after its one request
C7_Witness ==
    \E c \in Calls :
        /\ pc[c] = "done"
        /\ outcome[c].kind = "error"
        /\ outcome[c].name = "Error"
        /\ Len(sent[c]) = 1
        /\ mintCalls[c] = 1

\* C8: with calls interleaved in any way, each request carries the token its
\* own call minted, and each call settles with the outcome of its own
\* response.
C8_CallsDoNotInterfere ==
    \A c \in Calls :
        /\ \A i \in 1..Len(sent[c]) :
              /\ Len(mints[c]) = 1
              /\ SentToken(sent[c][i]) = mints[c][1].token
        /\ Answered(c) =>
              LET st == response[c].status
                  body == response[c].body
              IN  IF ~Is2xx(st)
                  THEN /\ outcome[c].kind = "error"
                       /\ Contains(outcome[c].message, IntToText(st))
                       /\ Contains(outcome[c].message, body)
                  ELSE IF st = 204 THEN outcome[c] = Returned(EmptyObject)
                  ELSE outcome[c] = Returned(JSONParse(body).val)
        /\ (pc[c] = "done" /\ response[c] = NoResponse) =>
              outcome[c] \in {SigningError, TransportError}

\* two calls are in flight together, holding different tokens, and one of
\* them has been answered
C8_Witness ==
    \E c, d \in Calls :
        /\ c # d
        /\ pc[c] = "text" /\ pc[d] = "fetching"
        /\ token[c] # token[d]
        /\ SentToken(sent[c][1]) = token[c]
        /\ SentToken(sent[d][1]) = token[d]

\* C9 as stated: every minted token decodes to alg HS256, typ JWT, kid = the
\* access key, org = the organization id, iss = urn:meshes:m2m:<access key>,
\* aud = meshes-api and exp - iat = 30.
C9_TokenClaims ==
    \A c \in Calls : \A i \in 1..Len(mints[c]) :
        LET h == DecodeHeader(mints[c][i].token)
            p == DecodePayload(mints[c][i].token)
        IN  /\ h.ok /\ p.ok
            /\ Get(h.val, K_alg) = JStr(Alg)
            /\ Get(h.val, K_typ) = JStr(Typ)
            /\ Get(h.val, K_kid) = JStr(config.accessKey)
            /\ Get(p.val, K_org) = JStr(config.orgId)
            /\ Get(p.val, K_iss) = JStr(IssuerPrefix \o config.accessKey)
            /\ Get(p.val, K_aud) = JStr(Audience)
            /\ Get(p.val, K_exp).v - Get(p.val, K_iat).v = 30

\* C9, what the minter does give: the claims as stated, but for exp - iat,
\* which is 30 plus the seconds the clock gained between its two reads.
C9_TokenClaimsTwoReads ==
    \A c \in Calls : \A i \in 1..Len(mints[c]) :
        LET h == DecodeHeader(mints[c][i].token)
            p == DecodePayload(mints[c][i].token)
        IN  /\ h.ok /\ p.ok
            /\ Get(h.val, K_alg) = JStr(Alg)
            /\ Get(h.val, K_typ) = JStr(Typ)
            /\ Get(h.val, K_kid) = JStr(config.accessKey)
            /\ Get(p.val, K_org) = JStr(config.orgId)
            /\ Get(p.val, K_iss) = JStr(IssuerPrefix \o config.accessKey)
            /\ Get(p.val, K_aud) = JStr(Audience)
            /\ Get(p.val, K_iat).v = mints[c][i].at \div 1000
            /\ \E e \in Elapsed :
                  Get(p.val, K_exp).v = ((mints[c][i].at + e) \div 1000) + 30

HeaderCount(headers, name) ==
    Cardinality({j \in 1..Len(headers) : headers[j][1] = name})

\* the value the request is to carry under `name`: the caller's when the
\* caller supplied one, the default otherwise
ExpectedHeader(own, name, default) ==
    IF HeaderCount(own, name) > 0
    THEN own[CHOOSE j \in 1..Len(own) : own[j][1] = name][2]
    ELSE default

\* C11: every request issued carries exactly one Authorization and one
\* Content-Type header; each holds the caller's value when the caller supplied
\* a header of that name, and otherwise 'Bearer ' with the token minted for
\* this call, respectively 'application/json'; the caller's other headers are
\* carried too.
C11_DefaultHeaders ==
    \A c \in Calls : \A i \in 1..Len(sent[c]) :
        LET req == sent[c][i]
            own == args[c].options.headers
        IN  /\ Len(mints[c]) = 1
            /\ HeaderCount(req.headers, H_Authorization) = 1
            /\ HeaderCount(req.headers, H_ContentType) = 1
            /\ HeaderOf(req, H_Authorization) =
                  ExpectedHeader(own, H_Authorization,
                                 HeaderValue(BearerPrefix, mints[c][1].token))
            /\ HeaderOf(req, H_ContentType) =
                  ExpectedHeader(own, H_ContentType,
                                 HeaderValue(ApplicationJson, NoToken))
            /\ \A j \in 1..Len(own) : HeaderOf(req, own[j][1]) = own[j][2]
            /\ args[c].op # "request" =>
                  /\ HeaderOf(req, H_Authorization).text = BearerPrefix
                  /\ HeaderOf(req, H_Authorization).token = mints[c][1].token
                  /\ HeaderOf(req, H_ContentType).text = ApplicationJson

\* a request whose caller supplied X-Trace only carries the bearer token of
\* its call, application/json and X-Trace
C11_Witness ==
    \E c \in Calls :
        /\ Len(sent[c]) = 1
        /\ args[c].options.headers = << <<H_Trace, HeaderValue(<<"1">>, NoToken)>> >>
        /\ Len(sent[c][1].headers) = 3
        /\ HeaderOf(sent[c][1], H_Authorization) =
              HeaderValue(BearerPrefix, mints[c][1].token)
        /\ HeaderOf(sent[c][1], H_ContentType).text = ApplicationJson

\* the first position of ch in s, 0 when there is none
IndexOf(s, ch) ==
    IF \E i \in 1..Len(s) : s[i] = ch
    THEN CHOOSE i \in 1..Len(s) : s[i] = ch /\ \A j \in 1..(i - 1) : s[j] # ch
    ELSE 0

RECURSIVE Split(_, _)
Split(s, ch) ==
    LET i == IndexOf(s, ch)
    IN  IF i = 0 THEN <<s>>
        ELSE <<SubSeq(s, 1, i - 1)>> \o Split(SubSeq(s, i + 1, Len(s)), ch)

\* the text after the first "?" of a path or URL
QueryString(url) ==
    LET i == IndexOf(url, "?")
    IN  IF i = 0 THEN <<>> ELSE SubSeq(url, i + 1, Len(url))

\* the <<name, value>> pairs a server reads from the query string, decoded
ParseQuery(url) ==
    LET qs == QueryString(url)
        parts == IF qs = <<>> THEN <<>> ELSE Split(qs, "&")
    IN  [k \in 1..Len(parts) |->
            LET e == IndexOf(parts[k], "=")
            IN  IF e = 0 THEN <<FormDecode(parts[k]), <<>> >>
                ELSE <<FormDecode(SubSeq(parts[k], 1, e - 1)),
                       FormDecode(SubSeq(parts[k], e + 1, Len(parts[k])))>>]

QueryHas(query, name) == \E k \in 1..Len(query) : query[k][1] = name

QueryValue(query, name) ==
    query[CHOOSE k \in 1..Len(query) : query[k][1] = name][2]

\* the params object a list operation was called with
ListParams(a) == a.input[Len(a.input)]

\* params?.key was supplied: it holds a value
Supplied(a, key) == Optional(ListParams(a), key).t # "undefined"

TakesLimitAndCursor(a) == a.op \in {"listEvents", "getWorkspaceEvents"}

\* C12 as stated: a request of listEvents or getWorkspaceEvents called with
\* limit and cursor both supplied, whatever number and string they are, has
\* limit=<limit> and cursor=<cursor> in its query string; called with no
\* optional parameter, its path has no "?".
C12_LimitAndCursorInQuery ==
    \A c \in Calls : \A i \in 1..Len(sent[c]) :
        TakesLimitAndCursor(args[c]) =>
            LET query == ParseQuery(sent[c][i].url)
            IN  /\ (Supplied(args[c], Key.limit) /\ Supplied(args[c], Key.cursor)) =>
                      /\ QueryHas(query, Key.limit)
                      /\ QueryValue(query, Key.limit) =
                            ToText(Optional(ListParams(args[c]), Key.limit))
                      /\ QueryHas(query, Key.cursor)
                      /\ QueryValue(query, Key.cursor) =
                            ToText(Optional(ListParams(args[c]), Key.cursor))
                /\ (\A k \in 1..Len(WorkspaceEventsKeys) :
                        ~Supplied(args[c], WorkspaceEventsKeys[k])) =>
                      IndexOf(args[c].path, "?") = 0

\* C12 for truthy values only: a limit other than 0 and a cursor other than
\* the empty string are both in the query string, the cursor form-encoded.
C12_TruthyLimitAndCursorInQuery ==
    \A c \in Calls : \A i \in 1..Len(sent[c]) :
        (/\ TakesLimitAndCursor(args[c])
         /\ Truthy(Optional(ListParams(args[c]), Key.limit))
         /\ Truthy(Optional(ListParams(args[c]), Key.cursor))) =>
            LET query == ParseQuery(sent[c][i].url)
            IN  /\ QueryHas(query, Key.limit)
                /\ QueryValue(query, Key.limit) =
                      ToText(Optional(ListParams(args[c]), Key.limit))
                /\ QueryHas(query, Key.cursor)
                /\ QueryValue(query, Key.cursor) =
                      ToText(Optional(ListParams(args[c]), Key.cursor))

IsListOperation(a) == a.op \in {"listEvents", "listRules", "getWorkspaceEvents"}

\* C13: in a request of listEvents, listRules or getWorkspaceEvents, each of
\* limit, cursor, event, status, resource and resource_id is a key of the
\* query string only if the caller supplied that parameter, and then once and
\* with the supplied value; a parameter left out is no key of the query, so
\* no value is empty or the text "undefined", and the query has no other key.
C13_OnlySuppliedKeysInQuery ==
    \A c \in Calls : \A i \in 1..Len(sent[c]) :
        IsListOperation(args[c]) =>
            LET query == ParseQuery(sent[c][i].url)
            IN  /\ \A k \in 1..Len(WorkspaceEventsKeys) :
                      LET key == WorkspaceEventsKeys[k]
                      IN  /\ QueryHas(query, key) =>
                                /\ Supplied(args[c], key)
                                /\ QueryValue(query, key) =
                                      ToText(Optional(ListParams(args[c]), key))
                          /\ ~Supplied(args[c], key) => ~QueryHas(query, key)
                /\ \A j \in 1..Len(query) :
                      /\ \E k \in 1..Len(WorkspaceEventsKeys) :
                            query[j][1] = WorkspaceEventsKeys[k]
                      /\ query[j][2] # <<>>
                      /\ query[j][2] # ToText(JUndefined)
                      /\ \A l \in 1..Len(query) : query[l][1] = query[j][1] => l = j

\* getWorkspaceEvents called with event and status but neither limit nor
\* cursor issued a request whose query is event and status only
C13_Witness ==
    \E c \in Calls :
        /\ Len(sent[c]) = 1
        /\ args[c].op = "getWorkspaceEvents"
        /\ Supplied(args[c], Key.event) /\ Supplied(args[c], Key.status)
        /\ ~Supplied(args[c], Key.limit) /\ ~Supplied(args[c], Key.cursor)
        /\ ~Supplied(args[c], Key.resource) /\ ~Supplied(args[c], Key.resource_id)
        /\ ParseQuery(sent[c][1].url) =
              << <<Key.event, <<"e">> >>, <<Key.status, <<"f", "a", "i", "l", "e", "d">> >> >>

CreateOperations == {"createWorkspace", "createConnection", "createRule"}
UpdateOperations == {"updateWorkspace", "updateConnection"}
DeleteOperations == {"deleteConnection", "deleteRule"}
ReadOperations ==
    {"listWorkspaces", "getWorkspace", "getWorkspaceConnections", "getWorkspaceRules",
     "getWorkspaceEvents", "listConnections", "getConnection", "getConnectionActions",
     "getConnectionFields", "getConnectionDefaultMappings", "listRules", "getRule",
     "listEvents", "getEvent", "getEventPayload", "listIntegrations"}

\* the request carries a body that is the JSON text of an object
HasJsonObjectBody(req) ==
    /\ req.body.t = "str"
    /\ JSONParse(req.body.v).ok
    /\ JSONParse(req.body.v).val.t = "obj"

\* C14: a create operation issues POST with a JSON body, an update operation
\* PUT with a JSON body, a delete operation DELETE, and a read or list
\* operation a request with no method option and no body.
C14_VerbMapping ==
    \A c \in Calls : \A i \in 1..Len(sent[c]) :
        LET req == sent[c][i]
        IN  /\ args[c].op \in CreateOperations =>
                  (req.method = "POST" /\ HasJsonObjectBody(req))
            /\ args[c].op \in UpdateOperations =>
                  (req.method = "PUT" /\ HasJsonObjectBody(req))
            /\ args[c].op \in DeleteOperations => req.method = "DELETE"
            /\ args[c].op \in ReadOperations =>
                  (req.method = Undefined /\ req.body = JUndefined)

\* updateConnection issued a PUT whose body is the JSON text of its params
C14_Witness ==
    \E c \in Calls :
        /\ Len(sent[c]) = 1
        /\ args[c].op = "updateConnection"
        /\ sent[c][1].method = "PUT"
        /\ HasJsonObjectBody(sent[c][1])
        /\ Get(JSONParse(sent[c][1].body.v).val, Key.name) = JStr(<<"c", "n">>)

IsTrue(val) == val.t = "bool" /\ val.v

\* the JSON text {"force_delete":true}
ForceDeleteText == <<"{", "\"", "f", "o", "r", "c", "e", "_", "d", "e", "l", "e", "t", "e", "\"", ":", "t", "r", "u", "e", "}">>

\* C15: a request of deleteConnection is a DELETE whose body is the JSON text
\* {"force_delete":true} if and only if the caller passed true as forceDelete,
\* and which has no body otherwise; called by the tool
\* meshes_delete_connection, the body is sent if and only if the tool input
\* has force_delete true.
C15_ForceDeleteOnlyWhenTrue ==
    \A c \in Calls : \A i \in 1..Len(sent[c]) :
        args[c].op = "deleteConnection" =>
            LET req == sent[c][i]
            IN  /\ req.method = "DELETE"
                /\ IF IsTrue(args[c].input[2])
                   THEN req.body.t = "str" /\ req.body.v = ForceDeleteText
                   ELSE req.body.t = "undefined"
                /\ tool[c].name = "meshes_delete_connection" =>
                      (req.body.t = "str" <=> IsTrue(Get(tool[c].input, Key.force_delete)))

\* the tool called with force_delete true sent the force body, and the
\* service answered
C15_Witness ==
    \E c \in Calls :
        /\ tool[c].name = "meshes_delete_connection"
        /\ IsTrue(Get(tool[c].input, Key.force_delete))
        /\ Len(sent[c]) = 1
        /\ sent[c][1].body = JStr(ForceDeleteText)
        /\ tool[c].pc = "done"

\* the tool called with force_delete false or left out sent a DELETE without
\* a body
C15_WitnessUnforced ==
    \E c \in Calls :
        /\ tool[c].name = "meshes_delete_connection"
        /\ ~IsTrue(Get(tool[c].input, Key.force_delete))
        /\ Len(sent[c]) = 1
        /\ sent[c][1].method = "DELETE"
        /\ sent[c][1].body.t = "undefined"

BulkPath == <<"/", "a", "p", "i", "/", "v", "1", "/", "e", "v", "e", "n", "t", "s", "/", "b", "u", "l", "k">>

\* C16: emitBulkEvents issues at most one request, a POST to
\* /api/v1/events/bulk whose body is the JSON text of all the events in the
\* order given; an answer of partial success is returned as the service sent
\* it (count, error_count and records), and nothing is sent again.
C16_BulkSentOnceAndReturnedUnchanged ==
    \A c \in Calls :
        args[c].op = "emitBulkEvents" =>
            /\ Len(sent[c]) <= 1
            /\ pc[c] \in {"fetching", "text", "json"} => Len(sent[c]) = 1
            /\ response[c] # NoResponse => Len(sent[c]) = 1
            /\ \A i \in 1..Len(sent[c]) :
                  /\ sent[c][i].method = "POST"
                  /\ sent[c][i].url = config.baseUrl \o BulkPath
                  /\ sent[c][i].body.t = "str"
                  /\ JSONParse(sent[c][i].body.v).ok
                  /\ JSONParse(sent[c][i].body.v).val = args[c].input[1]
            /\ (Answered(c) /\ response[c] = Response(207, B_partial)) =>
                  /\ outcome[c] = Returned(JSONParse(B_partial).val)
                  /\ Get(outcome[c].value, <<"c", "o", "u", "n", "t">>) = JNum(3)
                  /\ Get(outcome[c].value,
                         <<"e", "r", "r", "o", "r", "_", "c", "o", "u", "n", "t">>) = JNum(1)
                  /\ Len(Get(outcome[c].value,
                             <<"r", "e", "c", "o", "r", "d", "s">>).v) = 3

\* a batch of three events, the third given first, was sent in one request
\* and answered with a partial success, which was returned
C16_Witness ==
    \E c \in Calls :
        /\ args[c].op = "emitBulkEvents"
        /\ args[c].input[1] = JArr(<<BulkEvent(3), BulkEvent(1), BulkEvent(2)>>)
        /\ Len(sent[c]) = 1
        /\ response[c] = Response(207, B_partial)
        /\ pc[c] = "done"
        /\ outcome[c].kind = "value"
        /\ Len(Get(outcome[c].value, <<"r", "e", "c", "o", "r", "d", "s">>).v) = 3

\* the number of events a call of meshes_emit_bulk_events was given
EventsGiven(c) == Len(Get(tool[c].input, Key.events).v)

\* C17: a call of meshes_emit_bulk_events whose events array is empty or has
\* more than 100 elements is refused by the validation of its input: no
\* handler runs, no token is minted and no request is issued; an array of 1
\* to 100 events is accepted and all of it is passed to emitBulkEvents.
C17_BulkSizeValidatedFirst ==
    \A c \in Calls :
        (tool[c].name = "meshes_emit_bulk_events"
            /\ Get(tool[c].input, Key.events).t = "arr") =>
            /\ (EventsGiven(c) = 0 \/ EventsGiven(c) > MaxEvents) =>
                  /\ tool[c].pc = "rejected"
                  /\ pc[c] = "idle"
                  /\ mintCalls[c] = 0
                  /\ mints[c] = <<>>
                  /\ sent[c] = <<>>
            /\ (1 <= EventsGiven(c) /\ EventsGiven(c) <= MaxEvents) =>
                  /\ tool[c].pc \in {"running", "done"}
                  /\ mintCalls[c] = 1
                  /\ args[c].op = "emitBulkEvents"
                  /\ Len(args[c].input[1].v) = EventsGiven(c)

\* a batch of 100 events was accepted, sent in one request and answered
C17_Witness ==
    \E c \in Calls :
        /\ tool[c].name = "meshes_emit_bulk_events"
        /\ EventsGiven(c) = MaxEvents
        /\ Len(sent[c]) = 1
        /\ tool[c].pc = "done"
        /\ tool[c].result.isError.t = "undefined"

\* a batch of 101 events was refused
C17_WitnessTooMany ==
    \E c \in Calls :
        /\ tool[c].name = "meshes_emit_bulk_events"
        /\ Get(tool[c].input, Key.events).t = "arr"
        /\ EventsGiven(c) = MaxEvents + 1
        /\ tool[c].pc = "rejected"

\* every member of `given` that holds a value is a member of `got`, with
\* that value
CarriesAll(got, given) ==
    \A k \in 1..Len(given.v) :
        given.v[k][2].t # "undefined" => Get(got, given.v[k][1]) = given.v[k][2]

\* C18: the body of a create operation is JSON text that parses back to the
\* params it was given: every member that holds a value, the keys and values
\* of metadata included, is in the body with that value, and the body has no
\* other member; what meshes_create_workspace and meshes_create_connection
\* were given is in the body too.
C18_CreateBodyRoundTrip ==
    \A c \in Calls : \A i \in 1..Len(sent[c]) :
        args[c].op \in CreateOperations =>
            LET params == args[c].input[1]
                body == sent[c][i].body
            IN  /\ body.t = "str"
                /\ JSONParse(body.v).ok
                /\ JSONParse(body.v).val = JObj(DefinedMembers(params.v))
                /\ CarriesAll(JSONParse(body.v).val, params)
                /\ tool[c].name \in {"meshes_create_workspace",
                                     "meshes_create_connection"} =>
                      CarriesAll(JSONParse(body.v).val, tool[c].input)

\* meshes_create_connection, given metadata with a key and a value that JSON
\* escapes, issued a request whose body holds that metadata
C18_Witness ==
    \E c \in Calls :
        /\ tool[c].name = "meshes_create_connection"
        /\ Len(sent[c]) = 1
        /\ Get(Get(tool[c].input, Key.metadata), <<"k", "\"", "1">>) = JStr(<<"a", "\\", "b">>)
        /\ Get(Get(JSONParse(sent[c][1].body.v).val, Key.metadata), <<"k", "\"", "1">>)
              = JStr(<<"a", "\\", "b">>)
        /\ Get(JSONParse(sent[c][1].body.v).val, Key.name) = JStr(<<"c", "n">>)

\* C19: no handler lets an error leave it: a tool call whose client call
\* failed, with the status error of a non-2xx answer or with any other error
\* (minting, transport, body, parse), ends with a result that has isError
\* true and the message of the error as its text; an error raised in the
\* handler itself is returned the same way.
C19_HandlersReturnErrors ==
    \A c \in Calls :
        /\ tool[c].pc \in {"idle", "running", "done", "rejected"}
        /\ (tool[c].pc = "done" /\ outcome[c].kind = "error") =>
              /\ IsTrue(tool[c].result.isError)
              /\ tool[c].result.text = outcome[c].message
        /\ (tool[c].pc = "done" /\ outcome[c].kind = "value"
                /\ IsTrue(tool[c].result.isError)) =>
              /\ tool[c].name = "meshes_emit_event"
              /\ tool[c].result.text = NoEventError.message

\* a tool call answered with 409 returned the status error as its text
C19_Witness ==
    \E c \in Calls :
        /\ tool[c].pc = "done"
        /\ response[c] = Response(409, B_notFound)
        /\ outcome[c].name = "Error"
        /\ IsTrue(tool[c].result.isError)
        /\ tool[c].result.text = ErrorMessage(409, B_notFound)

\* a tool call whose request could not be sent returned the transport error
C19_WitnessTransport ==
    \E c \in Calls :
        /\ tool[c].pc = "done"
        /\ outcome[c] = TransportError
        /\ tool[c].result = toolError(TransportError)

\* C20: no step of any call changes the credentials the client was
\* constructed with: access key, secret key, organization id and base URL
\* stay as they were.
C20_CredentialsNeverModified == [][config' = config]_vars

\* two calls have run to their end, one answered and one failed in minting,
\* and the credentials still sign the token that was sent
C20_Witness ==
    \E c, d \in Calls :
        /\ pc[c] = "done" /\ Len(sent[c]) = 1 /\ outcome[c].kind = "value"
        /\ pc[d] = "done" /\ outcome[d] = SigningError
        /\ config \in ConcurrentConfigs
        /\ VerifySignature(mints[c][1].token, config.secretKey)

-----------------------------------------------------------------------------
\* the identifier arguments of an operation: its string arguments
IdentifierArgs(a) ==
    {a.input[k].v : k \in {j \in 1..Len(a.input) : a.input[j].t = "str"}}

\* C21: the URL of every request is the configured base URL followed by the
\* path the operation built, character for character, and every identifier
\* the operation was called with stands in that path after a "/" exactly as
\* given: not encoded, not trimmed, not rejected.
C21_UrlIsBasePlusPath ==
    \A c \in Calls : \A i \in 1..Len(sent[c]) :
        /\ sent[c][i].url = config.baseUrl \o args[c].path
        /\ \A id \in IdentifierArgs(args[c]) :
              Contains(args[c].path, <<"/">> \o id)

\* a retry was sent for an event identifier with spaces and a slash
C21_Witness ==
    \E c \in Calls :
        /\ args[c].op = "retryEventRule"
        /\ Len(sent[c]) = 1
        /\ sent[c][1].url =
              config.baseUrl
              \o <<"/", "a", "p", "i", "/", "v", "1", "/", "e", "v", "e", "n", "t", "s",
                   "/", " ", "r", "/", "2", " ", "/", "r", "u", "l", "e", "s", "/",
                   "w", "1", "/", "r", "e", "t", "r", "y">>

-----------------------------------------------------------------------------
\* an environment variable that is unset or empty
UnsetOrEmpty(val) == val.t = "undefined" \/ (val.t = "str" /\ val.v = <<>>)

CredentialsLacking ==
    \/ UnsetOrEmpty(server.env.MESHES_ACCESS_KEY)
    \/ UnsetOrEmpty(server.env.MESHES_SECRET_KEY)
    \/ UnsetOrEmpty(server.env.MESHES_ORG_ID)

\* C22: when MESHES_ACCESS_KEY, MESHES_SECRET_KEY or MESHES_ORG_ID is unset or
\* empty, the process does nothing but exit with code 1: no client is
\* constructed, no tool registered, no transport connected.  When all three
\* are set, the client holds exactly them, and as base URL MESHES_BASE_URL,
\* or https://api.meshes.io when that variable is unset or empty.
C22_StartupNeedsCredentials ==
    /\ CredentialsLacking =>
          /\ server.at \in {"start", "exited"}
          /\ server.at = "exited" => server.exit = <<1>>
          /\ config = NoClient
          /\ server.registered = <<>>
    /\ (~CredentialsLacking /\ server.at # "start") =>
          /\ config.accessKey = server.env.MESHES_ACCESS_KEY.v
          /\ config.secretKey = server.env.MESHES_SECRET_KEY.v
          /\ config.orgId = server.env.MESHES_ORG_ID.v
          /\ config.baseUrl =
                (IF UnsetOrEmpty(server.env.MESHES_BASE_URL)
                 THEN <<"h", "t", "t", "p", "s", ":", "/", "/", "a", "p", "i", ".",
                        "m", "e", "s", "h", "e", "s", ".", "i", "o">>
                 ELSE server.env.MESHES_BASE_URL.v)
          /\ server.registered # <<>> => server.at # "start"

\* the process exited with code 1 because the secret key was empty
C22_Witness ==
    /\ server.at = "exited"
    /\ server.exit = <<1>>
    /\ server.env.MESHES_ACCESS_KEY.t = "str"
    /\ server.env.MESHES_ACCESS_KEY.v # <<>>
    /\ server.env.MESHES_SECRET_KEY.t = "str"
    /\ server.env.MESHES_SECRET_KEY.v = <<>>

\* the server is connected with the default base URL, MESHES_BASE_URL being empty
C22_WitnessDefaultUrl ==
    /\ server.at = "connected"
    /\ server.env.MESHES_BASE_URL.t = "str"
    /\ server.env.MESHES_BASE_URL.v = <<>>
    /\ config.baseUrl = DefaultBaseUrl

-----------------------------------------------------------------------------
\* C23 as stated: in every request of meshes_create_rule the metadata of the
\* body has as its action the tool's `action` input, whatever metadata_extra
\* holds, a member named "action" included.
C23_MetadataActionIsInput ==
    \A c \in Calls : \A i \in 1..Len(sent[c]) :
        tool[c].name = "meshes_create_rule" =>
            Get(Get(JSONParse(sent[c][i].body.v).val, Key.metadata), Key.action)
                = Get(tool[c].input, Key.action)

-----------------------------------------------------------------------------
\* C24 as stated: once the top level has made its server.registerTool calls
\* and main() runs, exactly 22 tools are registered.
C24_Exactly22Tools ==
    server.at \in {"connecting", "connected"} =>
        Cardinality({server.registered[i] : i \in 1..Len(server.registered)}) = 22

-----------------------------------------------------------------------------
\* C25 as stated: the result of a tool call has isError true exactly when the
\* client call its handler awaited failed; when that call returned a value
\* (after any 2xx answer, 204 and its empty object included) the result is no
\* error and its text contains JSON.stringify(value, null, 2).
C25_ErrorIffClientFailed ==
    \A c \in Calls :
        tool[c].pc = "done" =>
            /\ IsTrue(tool[c].result.isError) <=> outcome[c].kind = "error"
            /\ outcome[c].kind = "value" =>
                  Contains(tool[c].result.text,
                           JSONStringifyIndent(outcome[c].value, Gap, 0))

-----------------------------------------------------------------------------
\* the cursor listEvents or getWorkspaceEvents was called with
CursorGiven(a) == Optional(ListParams(a), Key.cursor)

\* C26 as stated: whatever string listEvents or getWorkspaceEvents is given as
\* cursor, the query of the request has the key cursor once, and its decoded
\* value is that string, character for character; given no cursor, the
\* request has no cursor key.
C26_CursorForwardedVerbatim ==
    \A c \in Calls : \A i \in 1..Len(sent[c]) :
        TakesLimitAndCursor(args[c]) =>
            LET query == ParseQuery(sent[c][i].url)
                named == {k \in 1..Len(query) : query[k][1] = Key.cursor}
            IN  IF CursorGiven(args[c]).t = "str"
                THEN /\ Cardinality(named) = 1
                     /\ \A k \in named : query[k][2] = CursorGiven(args[c]).v
                ELSE named = {}

\* C26 for cursors other than the empty string, the one the client drops
C26_NonEmptyCursorVerbatim ==
    \A c \in Calls : \A i \in 1..Len(sent[c]) :
        (TakesLimitAndCursor(args[c]) /\ Truthy(CursorGiven(args[c]))) =>
            LET query == ParseQuery(sent[c][i].url)
                named == {k \in 1..Len(query) : query[k][1] = Key.cursor}
            IN  /\ Cardinality(named) = 1
                /\ \A k \in named : query[k][2] = CursorGiven(args[c]).v

-----------------------------------------------------------------------------
\* C27: a call applies at most one reader to the body of its response, and
\* only once the response and its status are there: response.text() exactly
\* when the status is outside 200..299, no reader when it is 204, and
\* response.json() exactly for the other statuses of 200..299.
C27_BodyReadOnceByMatchingReader ==
    \A c \in Calls :
        /\ Len(reads[c]) <= 1
        /\ response[c] = NoResponse => reads[c] = <<>>
        /\ response[c] # NoResponse =>
              LET st == response[c].status
              IN  /\ reads[c] = <<"text">> <=> ~Is2xx(st)
                  /\ reads[c] = <<>> <=> st = 204
                  /\ reads[c] = <<"json">> <=> (Is2xx(st) /\ st # 204)

\* a 300 was read as text, once, and the call failed with it
C27_Witness ==
    \E c \in Calls :
        /\ pc[c] = "done"
        /\ response[c] = Response(300, B_notFound)
        /\ reads[c] = <<"text">>
        /\ outcome[c].kind = "error"

\* a 299 was read as JSON, once
C27_WitnessJson ==
    \E c \in Calls :
        /\ pc[c] = "done"
        /\ response[c] = Response(299, B_null)
        /\ reads[c] = <<"json">>

-----------------------------------------------------------------------------
\* the method of a request: fetch sends GET when options has no method
MethodSent(req) == IF req.method = Undefined THEN "GET" ELSE req.method

\* C28: for every request a tool call issues, the tool is registered with
\* readOnlyHint true exactly when the request is a GET and with
\* destructiveHint true exactly when it is a DELETE; a tool registered as
\* read-only sends no POST, PUT or DELETE.
C28_AnnotationsMatchRequests ==
    \A c \in Calls : \A i \in 1..Len(sent[c]) :
        tool[c].name \in ToolNames =>
            LET hints == Annotations(tool[c].name)
                method == MethodSent(sent[c][i])
            IN  /\ \E k \in 1..Len(server.registered) :
                      server.registered[k] = tool[c].name
                /\ hints.readOnlyHint <=> method = "GET"
                /\ hints.destructiveHint <=> method = "DELETE"
                /\ hints.readOnlyHint => method \notin {"POST", "PUT", "DELETE"}

\* meshes_delete_rule, registered as destructive and not read-only, sent a
\* DELETE
C28_Witness ==
    \E c \in Calls :
        /\ tool[c].name = "meshes_delete_rule"
        /\ Len(sent[c]) = 1
        /\ sent[c][1].method = "DELETE"
        /\ Annotations(tool[c].name).destructiveHint
        /\ ~Annotations(tool[c].name).readOnlyHint

\* a tool that is neither read-only nor destructive sent a POST
C28_WitnessPost ==
    \E c \in Calls :
        /\ tool[c].name = "meshes_retry_event_rule"
        /\ Len(sent[c]) = 1
        /\ sent[c][1].method = "POST"
        /\ ~Annotations(tool[c].name).destructiveHint
        /\ ~Annotations(tool[c].name).readOnlyHint

-----------------------------------------------------------------------------
\* "/api/v1/"
ApiPrefix == <<"/", "a", "p", "i", "/", "v", "1", "/">>

Resources ==
    { <<"w", "o", "r", "k", "s", "p", "a", "c", "e", "s">>,
      <<"c", "o", "n", "n", "e", "c", "t", "i", "o", "n", "s">>,
      <<"r", "u", "l", "e", "s">>,
      <<"e", "v", "e", "n", "t", "s">>,
      <<"i", "n", "t", "e", "g", "r", "a", "t", "i", "o", "n", "s">> }

\* a path without its query string
PathOnly(path) ==
    IF IndexOf(path, "?") = 0 THEN path ELSE SubSeq(path, 1, IndexOf(path, "?") - 1)

\* what follows the first Len(pre) characters of s
After(s, pre) == SubSeq(s, Len(pre) + 1, Len(s))

\* s is empty or goes on with a further segment
EndsOrNests(s) == s = <<>> \/ Head(s) = "/"

\* the identifiers an operation was called with, in the order of its arguments
IdentifierSeq(a) == SelectSeq(a.input, LAMBDA x : x.t = "str")

\* `rest`, the path after its resource, holds the identifiers `ids`: the first
\* one right after the resource and before any sub-resource, a second one
\* right after a sub-resource that is one of the resources
NestedUnder(rest, ids) ==
    IF ids = <<>> THEN TRUE
    ELSE LET first == <<"/">> \o ids[1].v
         IN  /\ StartsAt(rest, 1, first)
             /\ EndsOrNests(After(rest, first))
             /\ Len(ids) > 1 =>
                   \E sub \in Resources :
                       LET second == first \o <<"/">> \o sub \o <<"/">> \o ids[2].v
                       IN  /\ StartsAt(rest, 1, second)
                           /\ EndsOrNests(After(rest, second))

\* C29: the path of every request of a public operation is /api/v1/ followed
\* by workspaces, connections, rules, events or integrations; what follows
\* the resource is a further segment, and an operation called with
\* identifiers has the first one right after the resource, its sub-resources
\* after that identifier, and a second identifier under such a sub-resource.
C29_PathsUnderApiV1 ==
    \A c \in Calls : \A i \in 1..Len(sent[c]) :
        args[c].op # "request" =>
            LET path == PathOnly(args[c].path)
            IN  /\ sent[c][i].url = config.baseUrl \o args[c].path
                /\ \E r \in Resources :
                      /\ StartsAt(path, 1, ApiPrefix \o r)
                      /\ EndsOrNests(After(path, ApiPrefix \o r))
                      /\ NestedUnder(After(path, ApiPrefix \o r), IdentifierSeq(args[c]))

\* the default mappings of a connection were requested under its identifier
C29_Witness ==
    \E c \in Calls :
        /\ args[c].op = "getConnectionDefaultMappings"
        /\ Len(sent[c]) = 1
        /\ args[c].path =
              <<"/", "a", "p", "i", "/", "v", "1", "/", "c", "o", "n", "n", "e", "c", "t",
                "i", "o", "n", "s", "/", "w", "1", "/", "m", "a", "p", "p", "i", "n", "g",
                "s", "/", "d", "e", "f", "a", "u", "l", "t">>

\* a retry was requested under the event and, below it, under the rule
C29_WitnessTwoIdentifiers ==
    \E c \in Calls :
        /\ args[c].op = "retryEventRule"
        /\ Len(sent[c]) = 1
        /\ args[c].input[1] # args[c].input[2]
        /\ Len(IdentifierSeq(args[c])) = 2

-----------------------------------------------------------------------------
\* C30: when the signing, the transport and the reading of the body each
\* complete or fail, every call that entered request() ends, returned or
\* failed, and keeps that one outcome; every tool call whose handler runs
\* ends with one result, which does not change afterwards.
C30_CallsTerminate ==
    /\ \A c \in Calls :
          pc[c] # "idle" ~> (pc[c] = "done" /\ outcome[c].kind \in {"value", "error"})
    /\ \A c \in Calls :
          tool[c].pc = "running" ~> tool[c].pc = "done"
    /\ [][\A c \in Calls :
            /\ pc[c] = "done" => (pc'[c] = "done" /\ outcome'[c] = outcome[c])
            /\ tool[c].pc = "done" => tool'[c] = tool[c]]_vars

\* a tool call ended with its result after the transport had failed
C30_Witness ==
    \E c \in Calls :
        /\ tool[c].pc = "done"
        /\ pc[c] = "done"
        /\ outcome[c].kind = "error"
        /\ response[c] = NoResponse
        /\ Len(sent[c]) = 1
        /\ IsTrue(tool[c].result.isError)

=============================================================================
